---- MODULE Spec2Model ----
(***************************************************************************)
(* State machine of the App component (session controller) of the AI       *)
(* interior design front-end: image ingestion, the generation workflow,    *)
(* removal of uploads with re-indexing of the generated results, the       *)
(* refinement / chat workflow with its message parser, the saved           *)
(* preferences, and the mood board.                                        *)
(*                                                                         *)
(* Every React event handler and every continuation after an `await` (or   *)
(* a promise callback) is one action.  A handler closes over the state of  *)
(* the render in which it was created, so the values an asynchronous       *)
(* handler captured when it started are kept in the record of the          *)
(* outstanding operation (pendingUploads, runs, chatCall) and are NOT      *)
(* re-read from the state when its continuation runs; functional updaters  *)
(* (setX(prev => ...)) do read the state current at that time.             *)
(***************************************************************************)
EXTENDS Integers, Sequences, FiniteSets, TLC

(* ---------------------------------------------------------------- bounds *)
\* total number of image files ever decoded
MaxUploads == 3
\* number of files in one input batch
MaxFiles == 2
\* ingestion batches whose decoding is outstanding at the same time
MaxPending == 1
\* generation runs in progress at the same time
MaxRuns == 1
\* length of the chat transcript before a message is sent
MaxMessages == 2
\* number of items on the mood board before one is saved
MaxBoard == 2
\* the last reading of the clock (milliseconds after the first one)
MaxNow == 1

(* ------------------------------------------------------------- constants *)
\* useState<number | null>(null): the null of selectedResultIndex
Null == -1
NoError == "null"
NoStyle == "null"
NoProgress == [current |-> 0, total |-> 0]
\* an absent image (undefined): generatedImages[k] for a k that is no key
NoUpload == [file |-> 0, type |-> "none"]
NoImage == [from |-> NoUpload, via |-> "none"]
EmptyMap == [i \in {} |-> NoImage]

UploadError == "There was an error processing some of your images."
GenerateError == "Failed to generate all images. Please try again."
AckText == "I've updated the selected design. What do you think?"
SorryText == "Sorry, I couldn't process that request. Please try again."
ShoppingReply == "- **[Sofa](http://x)** - Grey linen sofa"
ChatReply == "Neutral tones work well."

DESIGN_STYLES == {"Scandinavian"}
COLOR_PALETTES == {"Neutral"}
ATMOSPHERES == {"Cozy & Inviting"}
IMAGE_QUALITIES == {"standard", "high"}
NoPalette == "null"
NoAtmosphere == "null"
\* useState<ImageQuality>('standard')
DefaultQuality == "standard"
\* localStorage.getItem returns null: no record is stored
NoRecord == <<>>
FileTypes == {"image/png", "text/plain"}
\* what the user types into the chat box
Inputs == {"Make the walls blue", "Find a similar lamp"}
\* more of it: a keyword in capitals inside a word, and blanks only
ChatInputs == Inputs \cup {"Add two ITEMS", "  "}
shoppingKeywords == {"shop", "buy", "link", "find", "product", "item"}

VARIABLES
    originalImages,       \* string[]: the upload payloads, in order
    generatedImages,      \* Record<number, string>: index -> generated payload
    selectedResultIndex,  \* number | null
    appState,             \* 'initial' | 'generating' | 'ready'
    generationProgress,   \* {current, total} | null
    selectedStyle,        \* string | null
    error,                \* string | null
    chatMessages,         \* ChatMessage[]
    isChatLoading,        \* boolean
    chatMode,             \* 'design' | 'general'
    showProcess,          \* boolean
    pendingUploads,       \* processFiles calls whose Promise.all is unsettled
    runs,                 \* handleGenerateClick invocations in progress
    lastRun,              \* the run whose handler returned in the last step
    chatCall,             \* the handleSendMessage invocation awaiting its call
    nextFile,             \* identity of the next file the user picks
    selectedColorPalette, \* string | null
    selectedAtmosphere,   \* string | null
    selectedQuality,      \* ImageQuality
    prefsSavedFeedback,   \* boolean
    storage,              \* localStorage[PREFERENCES_KEY]: the raw record
    mounted,              \* the mount effect (useEffect(..., [])) has run
    content,              \* what ParsedMessage rendered for each message
    lastSend,             \* "noop" once handleSendMessage returned at its guard
    moodBoardItems,       \* MoodBoardItem[]
    isMoodBoardOpen,      \* boolean
    now,                  \* what Date.now() returns
    restarted             \* results were reset since the outstanding chat call

vars == <<originalImages, generatedImages, selectedResultIndex, appState,
          generationProgress, selectedStyle, error, chatMessages,
          isChatLoading, chatMode, showProcess, pendingUploads, runs,
          lastRun, chatCall, nextFile, selectedColorPalette,
          selectedAtmosphere, selectedQuality, prefsSavedFeedback, storage,
          mounted, content, lastSend, moodBoardItems, isMoodBoardOpen, now,
          restarted>>

\* the mood board part of the state, and the clock its identifiers are made of
boardVars == <<moodBoardItems, isMoodBoardOpen, now>>

\* the saved-preferences part of the state
prefVars == <<selectedColorPalette, selectedAtmosphere, selectedQuality,
              prefsSavedFeedback, storage, mounted>>

appVars == <<originalImages, generatedImages, selectedResultIndex, appState,
             generationProgress, selectedStyle, error, chatMessages,
             isChatLoading, chatMode, showProcess>>

\* no handleGenerateClick invocation (a free slot of runs)
NoRun == [imgs |-> <<>>, i |-> 0, referenceImage |-> NoImage, pc |-> "none",
          calls |-> <<>>, commits |-> 0, alone |-> TRUE,
          quality |-> DefaultQuality]

\* no handleSendMessage invocation is awaiting its call
NoCall == [fn |-> "none", sel |-> Null, base |-> NoImage, text |-> "",
           quality |-> DefaultQuality]

(* ----------------------------------------------------------------- helpers *)
\* a JavaScript array index (0-based) into a TLA+ sequence
At(arr, index) == arr[index + 1]

\* { ...prev, [k]: v }
Put(map, k, v) ==
    [i \in DOMAIN map \cup {k} |-> IF i = k THEN v ELSE map[i]]

\* delete map[k]
Delete(map, k) == [i \in DOMAIN map \ {k} |-> map[i]]

\* map[k], undefined when k is no key
Get(map, k) == IF k \in DOMAIN map THEN map[k] ELSE NoImage

RECURSIVE SortedKeys(_)
\* Object.keys of an object with integer keys: ascending numeric order
SortedKeys(S) ==
    IF S = {} THEN <<>>
    ELSE LET m == CHOOSE x \in S : \A y \in S : x <= y
         IN <<m>> \o SortedKeys(S \ {m})

RECURSIVE FilterOut(_, _, _)
\* current.filter((_, index) => index !== indexToRemove), index counted from `at`
FilterOut(arr, at, indexToRemove) ==
    IF arr = <<>> THEN <<>>
    ELSE (IF at = indexToRemove THEN <<>> ELSE <<Head(arr)>>)
         \o FilterOut(Tail(arr), at + 1, indexToRemove)

(* ------------------------------------------------------ external service *)
\* The remote model is opaque: a result is identified by the upload it was
\* made from and the call that produced it.
generateImageWithStyle(source) == [from |-> source, via |-> "style"]
applyStyleFromReference(source, reference) == [from |-> source, via |-> "reference"]
refineImageWithText(base) == [from |-> base.from, via |-> "refine"]

Init ==
    /\ originalImages = <<>>
    /\ generatedImages = EmptyMap
    /\ selectedResultIndex = Null
    /\ appState = "initial"
    /\ generationProgress = NoProgress
    /\ selectedStyle = NoStyle
    /\ error = NoError
    /\ chatMessages = <<>>
    /\ isChatLoading = FALSE
    /\ chatMode = "design"
    /\ showProcess = TRUE
    /\ pendingUploads = {}
    /\ runs = [r \in 1..MaxRuns |-> NoRun]
    /\ lastRun = NoRun
    /\ chatCall = NoCall
    /\ nextFile = 1
    /\ selectedColorPalette = NoPalette
    /\ selectedAtmosphere = NoAtmosphere
    /\ selectedQuality = DefaultQuality
    /\ prefsSavedFeedback = FALSE
    /\ storage = NoRecord
    /\ mounted = TRUE
    /\ content = <<>>
    /\ lastSend = "none"
    /\ moodBoardItems = <<>>
    /\ isMoodBoardOpen = FALSE
    /\ now = 0
    /\ restarted = FALSE

(* ------------------------------------------------------- image ingestion *)
\* file.type.startsWith('image/')
IsImageFile(type) == type \in {"image/png"}

\* Array.from(files).filter(...): the image files of the batch, in input order
ImageFiles(files) == SelectSeq(files, IsImageFile)

\* reader.readAsDataURL(file) for each image file, in input order: a data URL
\* carries the file's content (here: which file it is) and its MIME type
NewImages(imageFiles) ==
    [j \in 1..Len(imageFiles) |-> [file |-> nextFile + j - 1, type |-> imageFiles[j]]]

\* [...originalImages, ...newImages]: originalImages is the array of the
\* render in which processFiles was called (batch.base), not the current one
UpdatedImages(batch) == batch.base \o batch.new

\* a run is no longer alone with generatedImages once another handler
\* writes it (history only; no handler reads this field)
Disturb(rs) ==
    [r \in DOMAIN rs |->
        IF rs[r].pc = "await" THEN [rs[r] EXCEPT !.alone = FALSE] ELSE rs[r]]

\* processFiles(files), up to the point where Promise.all is pending
processFiles(files) ==
    IF Len(files) > 0 /\ Len(ImageFiles(files)) > 0
    THEN /\ Cardinality(pendingUploads) < MaxPending
         /\ nextFile + Len(ImageFiles(files)) - 1 <= MaxUploads
         /\ pendingUploads' = pendingUploads \cup
                {[base |-> originalImages,
                  new |-> NewImages(ImageFiles(files))]}
         /\ nextFile' = nextFile + Len(ImageFiles(files))
         /\ lastRun' = NoRun
         /\ UNCHANGED <<appVars, runs, chatCall, prefVars, content, lastSend,
                   boardVars, restarted>>
    ELSE UNCHANGED vars

\* Promise.all(filePromises).then(...): every decode succeeded
UploadCommit(batch) ==
    /\ batch \in pendingUploads
    /\ pendingUploads' = pendingUploads \ {batch}
    /\ originalImages' = UpdatedImages(batch)
    \* resetGenerationState()
    /\ generatedImages' = EmptyMap
    /\ appState' = "initial"
    /\ error' = NoError
    /\ chatMessages' = <<>>
    /\ selectedResultIndex' = Null
    /\ restarted' = (chatCall # NoCall)
    /\ showProcess' = TRUE
    /\ runs' = Disturb(runs)
    /\ lastRun' = NoRun
    /\ UNCHANGED <<generationProgress, selectedStyle, isChatLoading, chatMode,
                   chatCall, nextFile, prefVars, content, lastSend,
                   boardVars>>

\* a failed batch that keeps the image decoded first
UploadFailPartial(batch) ==
    /\ batch \in pendingUploads
    /\ pendingUploads' = pendingUploads \ {batch}
    /\ error' = UploadError
    /\ originalImages' = Append(originalImages, Head(batch.new))
    /\ lastRun' = NoRun
    /\ UNCHANGED <<generatedImages, selectedResultIndex,
                   appState, generationProgress, selectedStyle, chatMessages,
                   isChatLoading, chatMode, showProcess, runs, chatCall,
                   nextFile, prefVars, content, lastSend,
                   boardVars, restarted>>

\* Promise.all(filePromises).catch(...): some decode failed
UploadFail(batch) ==
    /\ batch \in pendingUploads
    /\ pendingUploads' = pendingUploads \ {batch}
    /\ error' = UploadError
    /\ lastRun' = NoRun
    /\ UNCHANGED <<originalImages, generatedImages, selectedResultIndex,
                   appState, generationProgress, selectedStyle, chatMessages,
                   isChatLoading, chatMode, showProcess, runs, chatCall,
                   nextFile, prefVars, content, lastSend,
                   boardVars, restarted>>

(* ------------------------------------------------------ removing an upload *)
RECURSIVE ShiftKeys(_, _, _)
\* Object.keys(newGenerated).forEach(...): `keys` is the key list taken before
\* the loop; each step mutates the object the following steps read
ShiftKeys(newGenerated, keys, indexToRemove) ==
    IF keys = <<>> THEN newGenerated
    ELSE LET key == Head(keys)
         IN IF key > indexToRemove
            THEN ShiftKeys(Delete(Put(newGenerated, key - 1, newGenerated[key]), key),
                           Tail(keys), indexToRemove)
            ELSE ShiftKeys(newGenerated, Tail(keys), indexToRemove)

RECURSIVE Reverse(_)
Reverse(seq) == IF seq = <<>> THEN <<>> ELSE Append(Reverse(Tail(seq)), Head(seq))

\* the updater with the keys visited from the largest down
RemoveGeneratedDescending(current, indexToRemove) ==
    LET newGenerated == Delete(current, indexToRemove)
    IN ShiftKeys(newGenerated, Reverse(SortedKeys(DOMAIN newGenerated)), indexToRemove)

\* the updater handleRemoveImage passes to setGeneratedImages
RemoveGenerated(current, indexToRemove) ==
    LET newGenerated == Delete(current, indexToRemove)
    IN ShiftKeys(newGenerated, SortedKeys(DOMAIN newGenerated), indexToRemove)

\* the selection after handleRemoveImage; `selected && ...` treats 0 as null
RemoveSelection(selected, indexToRemove) ==
    IF selected = indexToRemove THEN Null
    ELSE IF selected # Null /\ selected # 0 /\ selected > indexToRemove
         THEN selected - 1
         ELSE selected

\* the remove button of upload `indexToRemove` (MainInterface)
handleRemoveImage(indexToRemove) ==
    /\ indexToRemove \in 0..(Len(originalImages) - 1)
    /\ originalImages' = FilterOut(originalImages, 0, indexToRemove)
    /\ generatedImages' = RemoveGenerated(generatedImages, indexToRemove)
    /\ selectedResultIndex' = RemoveSelection(selectedResultIndex, indexToRemove)
    /\ runs' = Disturb(runs)
    /\ lastRun' = NoRun
    /\ UNCHANGED <<appState, generationProgress, selectedStyle, error,
                   chatMessages, isChatLoading, chatMode, showProcess,
                   pendingUploads, chatCall, nextFile, prefVars, content, lastSend,
                   boardVars, restarted>>

(* -------------------------------------------------------- design controls *)
\* MainInterface is rendered, and in it the design controls
ControlsShown == Len(originalImages) > 0 /\ ~showProcess

\* ProcessExplanation's "Let's Get Started" button
onStart ==
    /\ Len(originalImages) > 0 /\ showProcess
    /\ showProcess' = FALSE
    /\ lastRun' = NoRun
    /\ UNCHANGED <<originalImages, generatedImages, selectedResultIndex,
                   appState, generationProgress, selectedStyle, error,
                   chatMessages, isChatLoading, chatMode, pendingUploads, runs,
                   chatCall, nextFile, prefVars, content, lastSend,
                   boardVars, restarted>>

\* a style button: disabled while generating; toggles the style
handleSelectStyle(style) ==
    /\ ControlsShown /\ appState # "generating"
    /\ selectedStyle' = IF selectedStyle = style THEN NoStyle ELSE style
    /\ lastRun' = NoRun
    /\ UNCHANGED <<originalImages, generatedImages, selectedResultIndex,
                   appState, generationProgress, error, chatMessages,
                   isChatLoading, chatMode, showProcess, pendingUploads, runs,
                   chatCall, nextFile, prefVars, content, lastSend,
                   boardVars, restarted>>

\* a palette button: disabled while generating; toggles the palette
handleSelectColorPalette(palette) ==
    /\ ControlsShown /\ appState # "generating"
    /\ selectedColorPalette' =
          IF selectedColorPalette = palette THEN NoPalette ELSE palette
    /\ lastRun' = NoRun
    /\ UNCHANGED <<appVars, pendingUploads, runs, chatCall, nextFile,
                   selectedAtmosphere, selectedQuality, prefsSavedFeedback,
                   storage, mounted, content, lastSend,
                   boardVars, restarted>>

\* an atmosphere button: disabled while generating; toggles the atmosphere
handleSelectAtmosphere(atmosphere) ==
    /\ ControlsShown /\ appState # "generating"
    /\ selectedAtmosphere' =
          IF selectedAtmosphere = atmosphere THEN NoAtmosphere ELSE atmosphere
    /\ lastRun' = NoRun
    /\ UNCHANGED <<appVars, pendingUploads, runs, chatCall, nextFile,
                   selectedColorPalette, selectedQuality, prefsSavedFeedback,
                   storage, mounted, content, lastSend,
                   boardVars, restarted>>

\* a quality button: disabled while generating; sets the tier
handleSelectQuality(quality) ==
    /\ ControlsShown /\ appState # "generating"
    /\ selectedQuality' = quality
    /\ lastRun' = NoRun
    /\ UNCHANGED <<appVars, pendingUploads, runs, chatCall, nextFile,
                   selectedColorPalette, selectedAtmosphere, prefsSavedFeedback,
                   storage, mounted, content, lastSend,
                   boardVars, restarted>>

(* ------------------------------------------------------ saved preferences *)
\* A JSON text is the sequence of its tokens.
LBrace == [t |-> "{", v |-> ""]
RBrace == [t |-> "}", v |-> ""]
Colon == [t |-> ":", v |-> ""]
Comma == [t |-> ",", v |-> ""]
JsonNull == [t |-> "null", v |-> ""]
JsonString(str) == [t |-> "string", v |-> str]

\* the JSON text of a property value of type string | null
JsonValue(value) == IF value = "null" THEN JsonNull ELSE JsonString(value)

\* JSON.stringify(prefs) of the object literal of handleSavePreferences:
\* the properties in the order they were written, a null value kept as null
JSONstringifyNoQuality(prefs) ==
    <<LBrace,
      JsonString("style"), Colon, JsonValue(prefs.style), Comma,
      JsonString("colorPalette"), Colon, JsonValue(prefs.colorPalette), Comma,
      JsonString("atmosphere"), Colon, JsonValue(prefs.atmosphere),
      RBrace>>
JSONstringify(prefs) ==
    <<LBrace,
      JsonString("style"), Colon, JsonValue(prefs.style), Comma,
      JsonString("colorPalette"), Colon, JsonValue(prefs.colorPalette), Comma,
      JsonString("atmosphere"), Colon, JsonValue(prefs.atmosphere), Comma,
      JsonString("quality"), Colon, JsonValue(prefs.quality),
      RBrace>>

\* an object without properties
EmptyObject == [k \in {} |-> ""]
SyntaxError == [ok |-> FALSE, isNull |-> FALSE, obj |-> EmptyObject]

RECURSIVE ParseMembers(_)
\* the members of a JSON object: "key": value {, "key": value}; of two
\* members with the same key the later one is kept
ParseMembers(tokens) ==
    IF /\ Len(tokens) >= 3
       /\ tokens[1].t = "string"
       /\ tokens[2] = Colon
       /\ tokens[3].t \in {"string", "null"}
    THEN LET key == tokens[1].v
             value == IF tokens[3].t = "null" THEN "null" ELSE tokens[3].v
         IN IF Len(tokens) = 3
            THEN [ok |-> TRUE, isNull |-> FALSE, obj |-> (key :> value)]
            ELSE IF tokens[4] = Comma
                 THEN LET rest == ParseMembers(SubSeq(tokens, 5, Len(tokens)))
                      IN IF rest.ok
                         THEN [rest EXCEPT !.obj =
                                  [k \in DOMAIN rest.obj \cup {key} |->
                                      IF k \in DOMAIN rest.obj THEN rest.obj[k]
                                      ELSE value]]
                         ELSE SyntaxError
                 ELSE SyntaxError
    ELSE SyntaxError

\* JSON.parse(savedPrefsRaw): null, a string, or an object of string | null
\* properties; anything else throws
JSONparse(text) ==
    IF text = <<JsonNull>>
    THEN [ok |-> TRUE, isNull |-> TRUE, obj |-> EmptyObject]
    ELSE IF Len(text) = 1 /\ text[1].t = "string"
    THEN [ok |-> TRUE, isNull |-> FALSE, obj |-> EmptyObject]
    ELSE IF Len(text) >= 2 /\ text[1] = LBrace /\ text[Len(text)] = RBrace
    THEN IF Len(text) = 2
         THEN [ok |-> TRUE, isNull |-> FALSE, obj |-> EmptyObject]
         ELSE ParseMembers(SubSeq(text, 2, Len(text) - 1))
    ELSE SyntaxError

\* savedPrefs.key: undefined when the object has no such property
Prop(obj, key) == IF key \in DOMAIN obj THEN obj[key] ELSE "undefined"

\* if (value): undefined, null and the empty string are falsy
Truthy(value) == value \notin {"undefined", "null", ""}

\* the try block of the mount effect throws: JSON.parse fails, or the parsed
\* value is null and reading a property of it fails
LoadThrows == ~JSONparse(storage).ok \/ JSONparse(storage).isNull

\* the value of a selection after the mount effect: set from the record when
\* a record is stored, the block does not throw before, and the property is
\* truthy
LoadedUnguarded(key, current) ==
    IF storage # NoRecord /\ ~LoadThrows
    THEN Prop(JSONparse(storage).obj, key)
    ELSE current
Loaded(key, current) ==
    IF storage # NoRecord /\ ~LoadThrows /\ Truthy(Prop(JSONparse(storage).obj, key))
    THEN Prop(JSONparse(storage).obj, key)
    ELSE current

\* useEffect(() => {...}, []): runs once, after the first render
loadPreferences ==
    /\ ~mounted
    /\ mounted' = TRUE
    /\ selectedStyle' = Loaded("style", selectedStyle)
    /\ selectedColorPalette' = Loaded("colorPalette", selectedColorPalette)
    /\ selectedAtmosphere' = Loaded("atmosphere", selectedAtmosphere)
    /\ selectedQuality' = Loaded("quality", selectedQuality)
    /\ lastRun' = NoRun
    /\ UNCHANGED <<originalImages, generatedImages, selectedResultIndex,
                   appState, generationProgress, error, chatMessages,
                   isChatLoading, chatMode, showProcess, pendingUploads, runs,
                   chatCall, nextFile, prefsSavedFeedback, storage, content,
                   lastSend, boardVars, restarted>>

\* the Save Preferences button: disabled while the feedback is shown
handleSavePreferences ==
    /\ ControlsShown /\ ~prefsSavedFeedback
    /\ storage' = JSONstringify([style |-> selectedStyle,
                                 colorPalette |-> selectedColorPalette,
                                 atmosphere |-> selectedAtmosphere,
                                 quality |-> selectedQuality])
    /\ prefsSavedFeedback' = TRUE
    /\ lastRun' = NoRun
    /\ UNCHANGED <<appVars, pendingUploads, runs, chatCall, nextFile,
                   selectedColorPalette, selectedAtmosphere, selectedQuality,
                   mounted, content, lastSend, boardVars, restarted>>

\* setTimeout(() => setPrefsSavedFeedback(false), 2000)
prefsSavedFeedbackTimeout ==
    /\ prefsSavedFeedback
    /\ prefsSavedFeedback' = FALSE
    /\ lastRun' = NoRun
    /\ UNCHANGED <<appVars, pendingUploads, runs, chatCall, nextFile,
                   selectedColorPalette, selectedAtmosphere, selectedQuality,
                   storage, mounted, content, lastSend,
                   boardVars, restarted>>

\* the Clear button
handleClearPreferences ==
    /\ ControlsShown
    /\ storage' = NoRecord
    /\ selectedStyle' = NoStyle
    /\ selectedColorPalette' = NoPalette
    /\ selectedAtmosphere' = NoAtmosphere
    /\ selectedQuality' = DefaultQuality
    /\ lastRun' = NoRun
    /\ UNCHANGED <<originalImages, generatedImages, selectedResultIndex,
                   appState, generationProgress, error, chatMessages,
                   isChatLoading, chatMode, showProcess, pendingUploads, runs,
                   chatCall, nextFile, prefsSavedFeedback, mounted, content,
                   lastSend, boardVars, restarted>>

\* the page is loaded again: the component is constructed anew (every
\* useState initial value, nothing outstanding), localStorage is kept
reload ==
    /\ mounted
    /\ originalImages' = <<>>
    /\ generatedImages' = EmptyMap
    /\ selectedResultIndex' = Null
    /\ appState' = "initial"
    /\ generationProgress' = NoProgress
    /\ selectedStyle' = NoStyle
    /\ error' = NoError
    /\ chatMessages' = <<>>
    /\ isChatLoading' = FALSE
    /\ chatMode' = "design"
    /\ showProcess' = TRUE
    /\ pendingUploads' = {}
    /\ runs' = [r \in DOMAIN runs |-> NoRun]
    /\ lastRun' = NoRun
    /\ chatCall' = NoCall
    /\ selectedColorPalette' = NoPalette
    /\ selectedAtmosphere' = NoAtmosphere
    /\ selectedQuality' = DefaultQuality
    /\ prefsSavedFeedback' = FALSE
    /\ mounted' = FALSE
    /\ moodBoardItems' = <<>>
    /\ isMoodBoardOpen' = FALSE
    /\ restarted' = FALSE
    /\ UNCHANGED <<storage, nextFile, content, lastSend, now>>


(* ---------------------------------------------------- generation workflow *)
\* the call handleGenerateClick issues first, in both branches (lines 192, 198)
StyleCall(images) ==
    [fn |-> "generateImageWithStyle", index |-> 0, source |-> At(images, 0),
     reference |-> NoImage, after |-> 0]

\* the call of loop iteration i (line 204): referenceImage is the local
\* constant of this run; `after` counts the run's commits made before the call
ApplyCall(images, i, referenceImage, commits) ==
    [fn |-> "applyStyleFromReference", index |-> i, source |-> At(images, i),
     reference |-> referenceImage, after |-> commits]

\* what the service returns for an outstanding call
CallResult(call) ==
    IF call.fn = "generateImageWithStyle"
    THEN generateImageWithStyle(call.source)
    ELSE applyStyleFromReference(call.source, call.reference)

\* every run other than r that is awaiting a call sees generatedImages written
DisturbOthers(rs, r) ==
    [q \in DOMAIN rs |-> IF q = r THEN rs[q] ELSE Disturb(rs)[q]]

\* the slot a new run takes
FreeSlots == {r \in DOMAIN runs : runs[r].pc = "none"}

\* the Generate button: disabled without a style and while generating; every
\* call of the run is passed the selectedQuality of the render in which the
\* button was clicked (run.quality; lines 192, 198, 204, 216)
handleGenerateClick ==
    /\ ControlsShown
    /\ selectedStyle # NoStyle /\ appState # "generating"
    /\ ~(Len(originalImages) = 0 \/ selectedStyle = NoStyle)
    /\ FreeSlots # {}
    /\ appState' = "generating"
    /\ error' = NoError
    /\ generatedImages' = EmptyMap
    /\ chatMessages' = <<>>
    /\ chatMode' = "design"
    /\ selectedResultIndex' = Null
    /\ restarted' = (chatCall # NoCall)
    /\ generationProgress' = [current |-> 1, total |-> Len(originalImages)]
    /\ LET r == CHOOSE q \in FreeSlots : \A p \in FreeSlots : q <= p
       IN runs' = [Disturb(runs) EXCEPT ![r] =
                      [imgs |-> originalImages, i |-> 0,
                       referenceImage |-> NoImage, pc |-> "await",
                       calls |-> <<StyleCall(originalImages)>>, commits |-> 0,
                       alone |-> TRUE, quality |-> selectedQuality]]
    /\ lastRun' = NoRun
    /\ UNCHANGED <<originalImages, selectedStyle, isChatLoading, showProcess,
                   pendingUploads, chatCall, nextFile, prefVars, content, lastSend,
                   boardVars>>

\* the loop passing on the image it has just received as the next reference
NextStepChained(run, image) ==
    [run EXCEPT !.i = run.i + 1,
                !.referenceImage = image,
                !.commits = run.commits + 1,
                !.calls = Append(run.calls,
                                 ApplyCall(run.imgs, run.i + 1, image,
                                           run.commits + 1))]

\* run after its outstanding call resolved with `image` and the result was
\* committed, when another image is left: the loop issues the next call
NextStep(run, image) ==
    LET referenceImage == IF run.i = 0 THEN image ELSE run.referenceImage
    IN [run EXCEPT !.i = run.i + 1,
                   !.referenceImage = referenceImage,
                   !.commits = run.commits + 1,
                   !.calls = Append(run.calls,
                                    ApplyCall(run.imgs, run.i + 1, referenceImage,
                                              run.commits + 1))]

\* run after its last call resolved with `image` and the result was committed
LastStep(run, image) ==
    [run EXCEPT !.referenceImage = IF run.i = 0 THEN image ELSE run.referenceImage,
                !.commits = run.commits + 1,
                !.pc = "ready"]

\* results kept back until the last call of the run has resolved
CommitAtEnd(current, run, image) ==
    IF run.i + 1 < Len(run.imgs) THEN current ELSE Put(current, run.i, image)

\* results stored under the 1-based position of the image
CommitOneBased(current, run, image) ==
    IF Len(run.imgs) = 1 THEN Put(EmptyMap, 1, image)
    ELSE Put(current, run.i + 1, image)

\* setGeneratedImages after a resolved call: the one-image branch replaces
\* the map (line 193), the other commits are functional updates (199, 205)
Commit(current, run, image) ==
    IF Len(run.imgs) = 1 THEN Put(EmptyMap, 0, image)
    ELSE Put(current, run.i, image)

\* the continuation of run r after its outstanding call resolved: commit the
\* result, then either issue the next call or finish the run
GenResolve(r) ==
    /\ r \in DOMAIN runs
    /\ runs[r].pc = "await"
    /\ LET run == runs[r]
           image == CallResult(run.calls[Len(run.calls)])
       IN /\ generatedImages' = Commit(generatedImages, run, image)
          /\ IF Len(run.imgs) > 1 /\ run.i + 1 < Len(run.imgs)
             THEN /\ generationProgress' =
                        [current |-> run.i + 2, total |-> Len(run.imgs)]
                  /\ runs' = [DisturbOthers(runs, r) EXCEPT ![r] = NextStep(run, image)]
                  /\ lastRun' = NoRun
                  /\ UNCHANGED appState
             ELSE /\ appState' = "ready"
                  /\ generationProgress' = NoProgress
                  /\ runs' = [DisturbOthers(runs, r) EXCEPT ![r] = NoRun]
                  /\ lastRun' = LastStep(run, image)
    /\ UNCHANGED <<originalImages, selectedResultIndex, selectedStyle, error,
                   chatMessages, isChatLoading, chatMode, showProcess,
                   pendingUploads, chatCall, nextFile, prefVars, content, lastSend,
                   boardVars, restarted>>

\* a failure handler that also discards the results committed so far
GenRejectDiscard(r) ==
    /\ r \in DOMAIN runs
    /\ runs[r].pc = "await"
    /\ error' = GenerateError
    /\ appState' = "initial"
    /\ generationProgress' = NoProgress
    /\ generatedImages' = EmptyMap
    /\ runs' = [runs EXCEPT ![r] = NoRun]
    /\ lastRun' = [runs[r] EXCEPT !.pc = "failed"]
    /\ UNCHANGED <<originalImages, selectedResultIndex,
                   selectedStyle, chatMessages, isChatLoading, chatMode,
                   showProcess, pendingUploads, chatCall, nextFile, prefVars, content, lastSend,
                   boardVars, restarted>>

\* a failure handler without the finally block: the progress record stays
GenRejectNoFinally(r) ==
    /\ r \in DOMAIN runs
    /\ runs[r].pc = "await"
    /\ error' = GenerateError
    /\ appState' = "initial"
    /\ runs' = [runs EXCEPT ![r] = NoRun]
    /\ lastRun' = [runs[r] EXCEPT !.pc = "failed"]
    /\ UNCHANGED <<originalImages, generatedImages, selectedResultIndex,
                   generationProgress, selectedStyle, chatMessages,
                   isChatLoading, chatMode, showProcess, pendingUploads,
                   chatCall, nextFile, prefVars, content, lastSend,
                   boardVars, restarted>>

\* the continuation of run r after its outstanding call was rejected
GenReject(r) ==
    /\ r \in DOMAIN runs
    /\ runs[r].pc = "await"
    /\ error' = GenerateError
    /\ appState' = "initial"
    /\ generationProgress' = NoProgress
    /\ runs' = [runs EXCEPT ![r] = NoRun]
    /\ lastRun' = [runs[r] EXCEPT !.pc = "failed"]
    /\ UNCHANGED <<originalImages, generatedImages, selectedResultIndex,
                   selectedStyle, chatMessages, isChatLoading, chatMode,
                   showProcess, pendingUploads, chatCall, nextFile, prefVars, content, lastSend,
                   boardVars, restarted>>

(* ------------------------------------------------------- result gallery *)
\* the render condition of the gallery (line 470) inside MainInterface
GalleryShown ==
    Len(originalImages) > 0 /\ appState = "ready" /\ DOMAIN generatedImages # {}

\* the indices whose before/after pair the gallery renders (lines 478-480)
GalleryPairs ==
    IF GalleryShown
    THEN {index \in 0..(Len(originalImages) - 1) : index \in DOMAIN generatedImages}
    ELSE {}

\* the chat panel's render condition (line 506)
ChatShown == GalleryShown /\ selectedResultIndex # Null

\* a click on the gallery card of `index`
setSelectedResultIndex(index) ==
    /\ index \in GalleryPairs
    /\ selectedResultIndex' = index
    /\ lastRun' = NoRun
    /\ UNCHANGED <<originalImages, generatedImages, appState,
                   generationProgress, selectedStyle, error, chatMessages,
                   isChatLoading, chatMode, showProcess, pendingUploads, runs,
                   chatCall, nextFile, prefVars, content, lastSend,
                   boardVars, restarted>>

\* the Design Chat / General Chat buttons
setChatMode(mode) ==
    /\ ChatShown
    /\ chatMode' = mode
    /\ lastRun' = NoRun
    /\ UNCHANGED <<originalImages, generatedImages, selectedResultIndex,
                   appState, generationProgress, selectedStyle, error,
                   chatMessages, isChatLoading, showProcess, pendingUploads,
                   runs, chatCall, nextFile, prefVars, content, lastSend,
                   boardVars, restarted>>

(* ---------------------------------------------- refinement / chat workflow *)
\* the characters of a string (a TLA+ string has no characters to index):
\* every string the chat can hold, spelled out
Chars(str) ==
    CASE str = "shop" ->
           <<"s", "h", "o", "p">>
      [] str = "buy" ->
           <<"b", "u", "y">>
      [] str = "link" ->
           <<"l", "i", "n", "k">>
      [] str = "find" ->
           <<"f", "i", "n", "d">>
      [] str = "product" ->
           <<"p", "r", "o", "d", "u", "c", "t">>
      [] str = "item" ->
           <<"i", "t", "e", "m">>
      [] str = "Make the walls blue" ->
           <<"M", "a", "k", "e", " ", "t", "h", "e", " ", "w", "a", "l",
             "l", "s", " ", "b", "l", "u", "e">>
      [] str = "Find a similar lamp" ->
           <<"F", "i", "n", "d", " ", "a", " ", "s", "i", "m", "i", "l",
             "a", "r", " ", "l", "a", "m", "p">>
      [] str = "Add two ITEMS" ->
           <<"A", "d", "d", " ", "t", "w", "o", " ", "I", "T", "E", "M",
             "S">>
      [] str = "  " ->
           <<" ", " ">>
      [] str = "I've updated the selected design. What do you think?" ->
           <<"I", "'", "v", "e", " ", "u", "p", "d", "a", "t", "e", "d",
             " ", "t", "h", "e", " ", "s", "e", "l", "e", "c", "t", "e",
             "d", " ", "d", "e", "s", "i", "g", "n", ".", " ", "W", "h",
             "a", "t", " ", "d", "o", " ", "y", "o", "u", " ", "t", "h",
             "i", "n", "k", "?">>
      [] str = "Sorry, I couldn't process that request. Please try again." ->
           <<"S", "o", "r", "r", "y", ",", " ", "I", " ", "c", "o", "u",
             "l", "d", "n", "'", "t", " ", "p", "r", "o", "c", "e", "s",
             "s", " ", "t", "h", "a", "t", " ", "r", "e", "q", "u", "e",
             "s", "t", ".", " ", "P", "l", "e", "a", "s", "e", " ", "t",
             "r", "y", " ", "a", "g", "a", "i", "n", ".">>
      [] str = "- **[Sofa](http://x)** - Grey linen sofa" ->
           <<"-", " ", "*", "*", "[", "S", "o", "f", "a", "]", "(", "h",
             "t", "t", "p", ":", "/", "/", "x", ")", "*", "*", " ", "-",
             " ", "G", "r", "e", "y", " ", "l", "i", "n", "e", "n", " ",
             "s", "o", "f", "a">>
      [] str = "Neutral tones work well." ->
           <<"N", "e", "u", "t", "r", "a", "l", " ", "t", "o", "n", "e",
             "s", " ", "w", "o", "r", "k", " ", "w", "e", "l", "l", ".">>
      [] str = "Try:\n- **[A](u)** - d\n- **[B](v)** - e\nEnjoy" ->
           <<"T", "r", "y", ":", "\n", "-", " ", "*", "*", "[", "A", "]",
             "(", "u", ")", "*", "*", " ", "-", " ", "d", "\n", "-", " ",
             "*", "*", "[", "B", "]", "(", "v", ")", "*", "*", " ", "-",
             " ", "e", "\n", "E", "n", "j", "o", "y">>
      [] str = "- **[A](u) - d" ->
           <<"-", " ", "*", "*", "[", "A", "]", "(", "u", ")", " ", "-",
             " ", "d">>
      [] str = "See - **[A](u)** - d - **[B](v)** - e" ->
           <<"S", "e", "e", " ", "-", " ", "*", "*", "[", "A", "]", "(",
             "u", ")", "*", "*", " ", "-", " ", "d", " ", "-", " ", "*",
             "*", "[", "B", "]", "(", "v", ")", "*", "*", " ", "-", " ",
             "e">>
      [] str = "- **[A]b](u)(v)** - " ->
           <<"-", " ", "*", "*", "[", "A", "]", "b", "]", "(", "u", ")",
             "(", "v", ")", "*", "*", " ", "-", " ">>

\* String.prototype.toLowerCase on one character
LowerCase(c) ==
    CASE c = "A" -> "a" [] c = "B" -> "b" [] c = "C" -> "c" [] c = "D" -> "d"
      [] c = "E" -> "e" [] c = "F" -> "f" [] c = "G" -> "g" [] c = "H" -> "h"
      [] c = "I" -> "i" [] c = "J" -> "j" [] c = "K" -> "k" [] c = "L" -> "l"
      [] c = "M" -> "m" [] c = "N" -> "n" [] c = "O" -> "o" [] c = "P" -> "p"
      [] c = "Q" -> "q" [] c = "R" -> "r" [] c = "S" -> "s" [] c = "T" -> "t"
      [] c = "U" -> "u" [] c = "V" -> "v" [] c = "W" -> "w" [] c = "X" -> "x"
      [] c = "Y" -> "y" [] c = "Z" -> "z"
      [] OTHER -> c

\* input.toLowerCase()
toLowerCase(chars) == [j \in DOMAIN chars |-> LowerCase(chars[j])]

\* chars.startsWith(word, at), `at` counted from 1
StartsWith(chars, at, word) ==
    /\ at >= 1
    /\ at + Len(word) - 1 <= Len(chars)
    /\ SubSeq(chars, at, at + Len(word) - 1) = word

\* chars.includes(word)
includes(chars, word) == \E at \in 1..(Len(chars) + 1) : StartsWith(chars, at, word)

\* input.trim() is not the empty string
NotBlank(chars) == \E j \in DOMAIN chars : chars[j] \notin {" ", "\n"}

\* ChatInterface.handleSubmit's classification of the input: the keyword is
\* looked for in the input as typed, without lower-casing it
isShoppingQueryCaseSensitive(input, isDesignMode) ==
    isDesignMode /\ \E kw \in shoppingKeywords : includes(Chars(input), Chars(kw))
\* ChatInterface.handleSubmit's classification of the input
isShoppingQuery(input, isDesignMode) ==
    isDesignMode /\ \E kw \in shoppingKeywords :
                       includes(toLowerCase(Chars(input)), Chars(kw))

\* the service call handleSendMessage chooses
ChosenCall(baseImage, isShopping) ==
    IF chatMode = "design" /\ baseImage # NoImage
    THEN IF isShopping THEN "getShoppingSuggestions" ELSE "refineImageWithText"
    ELSE "getChatResponse"

\* handleSendMessage up to its await; chatCall.base is the image passed to
\* the call (getChatResponse is passed the text only)
handleSendMessageUnguarded(message, isShopping) ==
    LET baseImage == Get(generatedImages, selectedResultIndex)
        fn == ChosenCall(baseImage, isShopping)
    IN /\ chatMessages' = Append(chatMessages, [role |-> "user", text |-> message])
       /\ isChatLoading' = TRUE
       /\ error' = NoError
       /\ chatCall' = [fn |-> fn, sel |-> selectedResultIndex,
                       base |-> IF fn = "getChatResponse" THEN NoImage ELSE baseImage,
                       text |-> message, quality |-> selectedQuality]
       /\ lastRun' = NoRun
       /\ lastSend' = "none"
       /\ restarted' = FALSE
       /\ UNCHANGED <<originalImages, generatedImages, selectedResultIndex,
                      appState, generationProgress, selectedStyle, chatMode,
                      showProcess, pendingUploads, runs, nextFile, prefVars,
                      content, boardVars>>
handleSendMessage(message, isShopping) ==
    IF selectedResultIndex = Null
    THEN /\ lastSend' = "noop"
         /\ UNCHANGED <<appVars, pendingUploads, runs, lastRun, chatCall,
                        nextFile, prefVars, content, boardVars, restarted>>
    ELSE LET baseImage == Get(generatedImages, selectedResultIndex)
             fn == ChosenCall(baseImage, isShopping)
         IN /\ chatMessages' = Append(chatMessages, [role |-> "user", text |-> message])
            /\ isChatLoading' = TRUE
            /\ error' = NoError
            /\ chatCall' = [fn |-> fn, sel |-> selectedResultIndex,
                            base |-> IF fn = "getChatResponse" THEN NoImage
                                     ELSE baseImage,
                            text |-> message, quality |-> selectedQuality]
            /\ lastRun' = NoRun
            /\ lastSend' = "none"
            /\ restarted' = FALSE
            /\ UNCHANGED <<originalImages, generatedImages, selectedResultIndex,
                           appState, generationProgress, selectedStyle, chatMode,
                           showProcess, pendingUploads, runs, nextFile, prefVars,
                           content, boardVars>>

\* the chat form: rendered with the chat panel, refused while loading
handleSubmit(input) ==
    /\ ChatShown
    /\ NotBlank(Chars(input)) /\ ~isChatLoading
    /\ Len(chatMessages) < MaxMessages
    /\ handleSendMessage(input, isShoppingQuery(input, chatMode = "design"))

\* the text of the model message after a successful call
ModelResponseText(call) ==
    CASE call.fn = "getShoppingSuggestions" -> ShoppingReply
      [] call.fn = "refineImageWithText" -> AckText
      [] OTHER -> ChatReply

\* the transcript after the call of handleSendMessage settled with `text`
WithModelMessage(messages, text) ==
    Append(messages, [role |-> "model", text |-> text])

\* handleSendMessage after its call resolved, writing the map of the render
\* in which the message was sent with the refined image
ChatResolveOnlyRefined ==
    /\ chatCall # NoCall
    /\ IF chatCall.fn = "refineImageWithText"
       THEN /\ generatedImages' =
                  Put(EmptyMap, chatCall.sel, refineImageWithText(chatCall.base))
            /\ runs' = Disturb(runs)
       ELSE UNCHANGED <<generatedImages, runs>>
    /\ chatMessages' = WithModelMessage(chatMessages, ModelResponseText(chatCall))
    /\ isChatLoading' = FALSE
    /\ chatCall' = NoCall
    /\ restarted' = FALSE
    /\ lastRun' = NoRun
    /\ UNCHANGED <<originalImages, selectedResultIndex, appState,
                   generationProgress, selectedStyle, error, chatMode,
                   showProcess, pendingUploads, nextFile, prefVars, content, lastSend,
                   boardVars>>
\* handleSendMessage after its call resolved
ChatResolve ==
    /\ chatCall # NoCall
    /\ IF chatCall.fn = "refineImageWithText"
       THEN /\ generatedImages' =
                  Put(generatedImages, chatCall.sel, refineImageWithText(chatCall.base))
            /\ runs' = Disturb(runs)
       ELSE UNCHANGED <<generatedImages, runs>>
    /\ chatMessages' = WithModelMessage(chatMessages, ModelResponseText(chatCall))
    /\ isChatLoading' = FALSE
    /\ chatCall' = NoCall
    /\ restarted' = FALSE
    /\ lastRun' = NoRun
    /\ UNCHANGED <<originalImages, selectedResultIndex, appState,
                   generationProgress, selectedStyle, error, chatMode,
                   showProcess, pendingUploads, nextFile, prefVars, content, lastSend,
                   boardVars>>

\* handleSendMessage after its call was rejected, raising the error banner too
ChatRejectWithBanner ==
    /\ chatCall # NoCall
    /\ chatMessages' = WithModelMessage(chatMessages, SorryText)
    /\ isChatLoading' = FALSE
    /\ error' = SorryText
    /\ chatCall' = NoCall
    /\ restarted' = FALSE
    /\ lastRun' = NoRun
    /\ UNCHANGED <<originalImages, generatedImages, selectedResultIndex,
                   appState, generationProgress, selectedStyle, chatMode,
                   showProcess, pendingUploads, runs, nextFile, prefVars, content, lastSend,
                   boardVars>>
\* handleSendMessage after its call was rejected
ChatReject ==
    /\ chatCall # NoCall
    /\ chatMessages' = WithModelMessage(chatMessages, SorryText)
    /\ isChatLoading' = FALSE
    /\ chatCall' = NoCall
    /\ restarted' = FALSE
    /\ lastRun' = NoRun
    /\ UNCHANGED <<originalImages, generatedImages, selectedResultIndex,
                   appState, generationProgress, selectedStyle, error, chatMode,
                   showProcess, pendingUploads, runs, nextFile, prefVars, content, lastSend,
                   boardVars>>

(* ---------------------------------------------------------- message parser *)
\* /- \*\*\[(.*?)\]\((.*?)\)\*\* - (.*)/g, in its literal pieces
OpenItem == <<"-", " ", "*", "*", "[">>
NameToUrl == <<"]", "(">>
CloseItem == <<")", "*", "*", " ", "-", " ">>

\* the characters `.` does not match
IsLineTerminator(c) == c \in {"\n", "\r"}

\* a search that found nothing (positions are counted from 1)
NoMatch == 0

RECURSIVE UrlEnd(_, _)
\* (.*?)\)\*\* - : the url ends at `at` if the closing piece follows, else it
\* takes one more character of the line; the position of its last character
UrlEnd(chars, at) ==
    IF StartsWith(chars, at + 1, CloseItem) THEN at
    ELSE IF at + 1 > Len(chars) \/ IsLineTerminator(chars[at + 1]) THEN NoMatch
    ELSE UrlEnd(chars, at + 1)

RECURSIVE NameEnd(_, _)
\* (.*?)\]\( : the name ends at `at` if "](" follows and the rest of the
\* pattern matches from there, else it takes one more character of the line
NameEnd(chars, at) ==
    IF StartsWith(chars, at + 1, NameToUrl) /\ UrlEnd(chars, at + 2) # NoMatch
    THEN at
    ELSE IF at + 1 > Len(chars) \/ IsLineTerminator(chars[at + 1]) THEN NoMatch
    ELSE NameEnd(chars, at + 1)

RECURSIVE DescriptionEnd(_, _)
\* (.*) : the description takes every character up to the end of the line
DescriptionEnd(chars, at) ==
    IF at + 1 <= Len(chars) /\ ~IsLineTerminator(chars[at + 1])
    THEN DescriptionEnd(chars, at + 1)
    ELSE at

NoMatchFound ==
    [found |-> FALSE, index |-> 0, name |-> <<>>, url |-> <<>>,
     description |-> <<>>, lastIndex |-> 0]

RECURSIVE exec(_, _)
\* shoppingLinkRegex.exec(message.text), the search starting at position
\* `from`: the leftmost match; index and lastIndex as JavaScript counts them
exec(chars, from) ==
    IF from > Len(chars) THEN NoMatchFound
    ELSE IF StartsWith(chars, from, OpenItem) /\ NameEnd(chars, from + 4) # NoMatch
    THEN LET nameEnd == NameEnd(chars, from + 4)
             urlEnd == UrlEnd(chars, nameEnd + 2)
             descriptionEnd == DescriptionEnd(chars, urlEnd + 6)
         IN [found |-> TRUE, index |-> from - 1,
             name |-> SubSeq(chars, from + 5, nameEnd),
             url |-> SubSeq(chars, nameEnd + 3, urlEnd),
             description |-> SubSeq(chars, urlEnd + 7, descriptionEnd),
             lastIndex |-> descriptionEnd]
    ELSE exec(chars, from + 1)

RECURSIVE split(_)
\* part.split('\n')
split(chars) ==
    IF \E j \in DOMAIN chars : chars[j] = "\n"
    THEN LET first == CHOOSE j \in DOMAIN chars :
                         /\ chars[j] = "\n"
                         /\ \A k \in 1..(j - 1) : chars[k] # "\n"
         IN <<SubSeq(chars, 1, first - 1)>>
            \o split(SubSeq(chars, first + 1, Len(chars)))
    ELSE <<chars>>

\* a string part as it is rendered: its lines, each followed by <br/>
TextPart(chars) ==
    [kind |-> "text", lines |-> split(chars), name |-> <<>>, url |-> <<>>,
     description |-> <<>>]

\* <ShoppingItem name url description onSave/>
ShoppingItem(match) ==
    [kind |-> "item", lines |-> <<>>, name |-> match.name, url |-> match.url,
     description |-> match.description]

RECURSIVE ScanNoTail(_, _, _)
\* the scan without the text after the last match
ScanNoTail(chars, lastIndex, parts) ==
    LET match == exec(chars, lastIndex + 1)
    IN IF ~match.found THEN parts
       ELSE ScanNoTail(chars, match.lastIndex,
                (IF match.index > lastIndex
                 THEN Append(parts, TextPart(SubSeq(chars, lastIndex + 1, match.index)))
                 ELSE parts) \o <<ShoppingItem(match)>>)

RECURSIVE Scan(_, _, _)
\* the while loop over the matches and the text after the last one
Scan(chars, lastIndex, parts) ==
    LET match == exec(chars, lastIndex + 1)
    IN IF ~match.found
       THEN IF lastIndex < Len(chars)
            THEN Append(parts, TextPart(SubSeq(chars, lastIndex + 1, Len(chars))))
            ELSE parts
       ELSE Scan(chars, match.lastIndex,
                (IF match.index > lastIndex
                 THEN Append(parts, TextPart(SubSeq(chars, lastIndex + 1, match.index)))
                 ELSE parts) \o <<ShoppingItem(match)>>)

\* the content ParsedMessage computes for a message; regex, parts and
\* lastIndex are created in the call
ParsedMessage(message) ==
    IF message.role = "user" \/ ~includes(Chars(message.text), OpenItem)
    THEN <<TextPart(Chars(message.text))>>
    ELSE Scan(Chars(message.text), 0, <<>>)

\* a render of the chat panel that adds the parts to those of the render
\* before
renderChatAccumulating ==
    /\ ChatShown
    /\ content' = [j \in DOMAIN chatMessages |->
                      (IF j \in DOMAIN content THEN content[j] ELSE <<>>)
                      \o ParsedMessage(chatMessages[j])]
    /\ lastRun' = NoRun
    /\ UNCHANGED <<appVars, pendingUploads, runs, chatCall, nextFile, prefVars,
                   lastSend, boardVars, restarted>>

\* a render of the chat panel: ParsedMessage for every message (line 662)
renderChat ==
    /\ ChatShown
    /\ content' = [j \in DOMAIN chatMessages |-> ParsedMessage(chatMessages[j])]
    /\ lastRun' = NoRun
    /\ UNCHANGED <<appVars, pendingUploads, runs, chatCall, nextFile, prefVars,
                   lastSend, boardVars, restarted>>

(* -------------------------------------------------------------- mood board *)
\* Date.now() is read again by every handler; the clock moves on between two
\* handlers or it does not (a reading has the resolution of the clock)
tick ==
    /\ now < MaxNow
    /\ now' = now + 1
    /\ lastRun' = NoRun
    /\ UNCHANGED <<appVars, pendingUploads, runs, chatCall, nextFile, prefVars,
                   content, lastSend, moodBoardItems, isMoodBoardOpen, restarted>>

\* `design-${Date.now()}`, `item-${Date.now()}`: the prefix and the reading
ItemId(type) == <<type, now>>

\* the Save button of gallery card `index` (line 491): handleSaveDesign(generated)
handleSaveDesign(index) ==
    /\ index \in GalleryPairs
    /\ Len(moodBoardItems) < MaxBoard
    /\ IF selectedStyle = NoStyle
       THEN UNCHANGED moodBoardItems
       ELSE moodBoardItems' =
                Append(moodBoardItems,
                       [id |-> ItemId("design"), type |-> "design",
                        imageUrl |-> generatedImages[index],
                        style |-> selectedStyle])
    /\ lastRun' = NoRun
    /\ UNCHANGED <<appVars, pendingUploads, runs, chatCall, nextFile, prefVars,
                   content, lastSend, isMoodBoardOpen, now, restarted>>

\* the references the chat panel shows: the items of every rendered message
ShownItems ==
    IF ChatShown
    THEN {part \in UNION {{ParsedMessage(chatMessages[j])[k] :
                              k \in DOMAIN ParsedMessage(chatMessages[j])} :
                          j \in DOMAIN chatMessages} : part.kind = "item"}
    ELSE {}

\* the Save button of a reference (line 587): handleSaveShoppingItem
handleSaveShoppingItem(item) ==
    /\ item \in ShownItems
    /\ Len(moodBoardItems) < MaxBoard
    /\ moodBoardItems' =
           Append(moodBoardItems,
                  [id |-> ItemId("item"), type |-> "item", name |-> item.name,
                   url |-> item.url, description |-> item.description])
    /\ lastRun' = NoRun
    /\ UNCHANGED <<appVars, pendingUploads, runs, chatCall, nextFile, prefVars,
                   content, lastSend, isMoodBoardOpen, now, restarted>>

\* the Mood Board button of MainInterface (line 344) and onClose (line 533)
setIsMoodBoardOpen(open) ==
    /\ IF open THEN Len(originalImages) > 0 /\ ~isMoodBoardOpen
       ELSE isMoodBoardOpen
    /\ isMoodBoardOpen' = open
    /\ lastRun' = NoRun
    /\ UNCHANGED <<appVars, pendingUploads, runs, chatCall, nextFile, prefVars,
                   content, lastSend, moodBoardItems, now, restarted>>

\* the identifiers of the cards the mood board shows
ShownIds ==
    IF isMoodBoardOpen
    THEN {moodBoardItems[j].id : j \in DOMAIN moodBoardItems}
    ELSE {}

\* the remove button of a card (MoodBoard.tsx line 50)
handleRemoveMoodBoardItem(id) ==
    /\ id \in ShownIds
    /\ moodBoardItems' = SelectSeq(moodBoardItems, LAMBDA item : item.id # id)
    /\ lastRun' = NoRun
    /\ UNCHANGED <<appVars, pendingUploads, runs, chatCall, nextFile, prefVars,
                   content, lastSend, isMoodBoardOpen, now, restarted>>

(* ---------------------------------------------------------- specification *)
\* the file lists a user can pick or drop
FileLists == UNION {[1..n -> FileTypes] : n \in 0..MaxFiles}

Next ==
    \/ \E files \in FileLists : processFiles(files)
    \/ \E batch \in pendingUploads : UploadCommit(batch)
    \/ \E batch \in pendingUploads : UploadFail(batch)
    \/ \E indexToRemove \in 0..(MaxUploads - 1) : handleRemoveImage(indexToRemove)
    \/ onStart
    \/ \E style \in DESIGN_STYLES : handleSelectStyle(style)
    \/ handleGenerateClick
    \/ \E r \in DOMAIN runs : GenResolve(r)
    \/ \E r \in DOMAIN runs : GenReject(r)
    \/ \E index \in 0..(MaxUploads - 1) : setSelectedResultIndex(index)
    \/ \E mode \in {"design", "general"} : setChatMode(mode)
    \/ \E input \in Inputs : handleSubmit(input)
    \/ ChatResolve
    \/ ChatReject

Spec == Init /\ [][Next]_vars

\* the session without the result gallery and the chat: uploads, removals,
\* the design controls and generation runs, in any interleaving
NextGen ==
    \/ \E files \in FileLists : processFiles(files)
    \/ \E batch \in pendingUploads : UploadCommit(batch)
    \/ \E batch \in pendingUploads : UploadFail(batch)
    \/ \E indexToRemove \in 0..(MaxUploads - 1) : handleRemoveImage(indexToRemove)
    \/ onStart
    \/ \E style \in DESIGN_STYLES : handleSelectStyle(style)
    \/ handleGenerateClick
    \/ \E r \in DOMAIN runs : GenResolve(r)
    \/ \E r \in DOMAIN runs : GenReject(r)

SpecGen == Init /\ [][NextGen]_vars

\* Runs: uploads, the design controls and generation runs, where every
\* service call of a run eventually resolves or is rejected (the continuation
\* of a run that is waiting is eventually taken)
NextRun ==
    \/ \E files \in FileLists : processFiles(files)
    \/ \E batch \in pendingUploads : UploadCommit(batch)
    \/ onStart
    \/ \E style \in DESIGN_STYLES : handleSelectStyle(style)
    \/ handleGenerateClick
    \/ \E r \in DOMAIN runs : GenResolve(r)
    \/ \E r \in DOMAIN runs : GenReject(r)

SpecRunFair ==
    /\ Init /\ [][NextRun]_vars
    /\ \A r \in 1..MaxRuns : WF_vars(GenResolve(r) \/ GenReject(r))

\* the payloads a generated image can have for the uploads of a full list
Payloads(uploads) ==
    {[from |-> uploads[u], via |-> v] : u \in DOMAIN uploads, v \in {"style", "reference"}}

\* handleRemoveImage on every list of generated images, dense or sparse, that
\* can stand next to MaxUploads uploads (sparse and shifted maps arise when a
\* removal or a refinement overlaps a run), with any result selected
InitRemove ==
    /\ originalImages = [j \in 1..MaxUploads |-> [file |-> j, type |-> "image/png"]]
    /\ generatedImages \in
          UNION {[S -> Payloads(originalImages)] : S \in SUBSET (0..(MaxUploads - 1))}
    /\ selectedResultIndex \in {Null} \cup 0..(MaxUploads - 1)
    /\ appState = "ready"
    /\ generationProgress = NoProgress
    /\ selectedStyle \in DESIGN_STYLES
    /\ error = NoError
    /\ chatMessages = <<>>
    /\ isChatLoading = FALSE
    /\ chatMode = "design"
    /\ showProcess = FALSE
    /\ pendingUploads = {}
    /\ runs = [r \in 1..MaxRuns |-> NoRun]
    /\ lastRun = NoRun
    /\ chatCall = NoCall
    /\ nextFile = MaxUploads + 1
    /\ selectedColorPalette = NoPalette
    /\ selectedAtmosphere = NoAtmosphere
    /\ selectedQuality = DefaultQuality
    /\ prefsSavedFeedback = FALSE
    /\ storage = NoRecord
    /\ mounted = TRUE
    /\ content = <<>>
    /\ lastSend = "none"
    /\ moodBoardItems = <<>>
    /\ isMoodBoardOpen = FALSE
    /\ now = 0
    /\ restarted = FALSE

NextRemove ==
    \E indexToRemove \in 0..(MaxUploads - 1) : handleRemoveImage(indexToRemove)

SpecRemove == InitRemove /\ [][NextRemove]_vars

\* The chat over the results of a successful run on MaxUploads - 1 uploads:
\* selecting a result, switching the mode, sending, the call settling, with
\* removals and one more upload (committed or failed) in between, and
\* handleSendMessage invoked while nothing is selected
InitChat ==
    /\ originalImages = [j \in 1..(MaxUploads - 1) |-> [file |-> j, type |-> "image/png"]]
    /\ generatedImages =
          [index \in 0..(MaxUploads - 2) |->
              IF index = 0 THEN generateImageWithStyle(At(originalImages, 0))
              ELSE applyStyleFromReference(At(originalImages, index),
                       generateImageWithStyle(At(originalImages, 0)))]
    /\ selectedResultIndex = Null
    /\ appState = "ready"
    /\ generationProgress = NoProgress
    /\ selectedStyle \in DESIGN_STYLES
    /\ error = NoError
    /\ chatMessages = <<>>
    /\ isChatLoading = FALSE
    /\ chatMode = "design"
    /\ showProcess = FALSE
    /\ pendingUploads = {}
    /\ runs = [r \in 1..MaxRuns |-> NoRun]
    /\ lastRun = NoRun
    /\ chatCall = NoCall
    /\ nextFile = MaxUploads
    /\ selectedColorPalette = NoPalette
    /\ selectedAtmosphere = NoAtmosphere
    /\ selectedQuality = DefaultQuality
    /\ prefsSavedFeedback = FALSE
    /\ storage = NoRecord
    /\ mounted = TRUE
    /\ content = <<>>
    /\ lastSend = "none"
    /\ moodBoardItems = <<>>
    /\ isMoodBoardOpen = FALSE
    /\ now = 0
    /\ restarted = FALSE

NextChat ==
    \/ \E index \in 0..(MaxUploads - 1) : setSelectedResultIndex(index)
    \/ \E mode \in {"design", "general"} : setChatMode(mode)
    \/ \E input \in ChatInputs : handleSubmit(input)
    \/ ChatResolve
    \/ ChatReject
    \/ \E indexToRemove \in 0..(MaxUploads - 1) : handleRemoveImage(indexToRemove)
    \/ \E files \in FileLists : processFiles(files)
    \/ \E batch \in pendingUploads : UploadCommit(batch)
    \/ \E batch \in pendingUploads : UploadFail(batch)
    \/ /\ selectedResultIndex = Null
       /\ \E input \in ChatInputs, isShopping \in BOOLEAN :
              handleSendMessage(input, isShopping)

\* The mood board over the results of a successful run on one upload with a
\* shopping answer in the transcript: saving designs and references, opening
\* the board, removing cards, the clock moving on, and in between the other
\* operations: one more upload, removal of an upload, a new run, the chat
InitBoard ==
    /\ originalImages = <<[file |-> 1, type |-> "image/png"]>>
    /\ generatedImages = Put(EmptyMap, 0, generateImageWithStyle(At(originalImages, 0)))
    /\ selectedResultIndex = 0
    /\ appState = "ready"
    /\ generationProgress = NoProgress
    /\ selectedStyle \in DESIGN_STYLES
    /\ error = NoError
    /\ chatMessages = <<[role |-> "user", text |-> "Find a similar lamp"],
                        [role |-> "model", text |-> ShoppingReply]>>
    /\ isChatLoading = FALSE
    /\ chatMode = "design"
    /\ showProcess = FALSE
    /\ pendingUploads = {}
    /\ runs = [r \in 1..MaxRuns |-> NoRun]
    /\ lastRun = NoRun
    /\ chatCall = NoCall
    /\ nextFile = MaxUploads
    /\ selectedColorPalette = NoPalette
    /\ selectedAtmosphere = NoAtmosphere
    /\ selectedQuality = DefaultQuality
    /\ prefsSavedFeedback = FALSE
    /\ storage = NoRecord
    /\ mounted = TRUE
    /\ content = <<>>
    /\ lastSend = "none"
    /\ moodBoardItems = <<>>
    /\ isMoodBoardOpen = FALSE
    /\ now = 0
    /\ restarted = FALSE

\* the identifiers a card can have
ItemIds == {"design", "item"} \X (0..MaxNow)

NextBoard ==
    \/ tick
    \/ \E index \in 0..(MaxUploads - 1) : handleSaveDesign(index)
    \/ \E item \in ShownItems : handleSaveShoppingItem(item)
    \/ \E open \in BOOLEAN : setIsMoodBoardOpen(open)
    \/ \E id \in ItemIds : handleRemoveMoodBoardItem(id)
    \/ \E files \in FileLists : processFiles(files)
    \/ \E batch \in pendingUploads : UploadCommit(batch)
    \/ \E indexToRemove \in 0..(MaxUploads - 1) : handleRemoveImage(indexToRemove)
    \/ onStart
    \/ handleGenerateClick
    \/ \E r \in DOMAIN runs : GenResolve(r)
    \/ \E index \in 0..(MaxUploads - 1) : setSelectedResultIndex(index)
    \/ \E input \in Inputs : handleSubmit(input)
    \/ ChatResolve

SpecBoard == InitBoard /\ [][NextBoard]_vars

SpecChat == InitChat /\ [][NextChat]_vars

\* Overlapping runs: the session in which a second run can start while one
\* is in progress (an upload committed during a run returns the controls),
\* without removals, failed uploads and rejected chat calls
InitTwo ==
    /\ originalImages = <<>>
    /\ generatedImages = EmptyMap
    /\ selectedResultIndex = Null
    /\ appState = "initial"
    /\ generationProgress = NoProgress
    /\ selectedStyle = NoStyle
    /\ error = NoError
    /\ chatMessages = <<>>
    /\ isChatLoading = FALSE
    /\ chatMode = "design"
    /\ showProcess = TRUE
    /\ pendingUploads = {}
    /\ runs = [r \in 1..(MaxRuns + 1) |-> NoRun]
    /\ lastRun = NoRun
    /\ chatCall = NoCall
    /\ nextFile = 1
    /\ selectedColorPalette = NoPalette
    /\ selectedAtmosphere = NoAtmosphere
    /\ selectedQuality = DefaultQuality
    /\ prefsSavedFeedback = FALSE
    /\ storage = NoRecord
    /\ mounted = TRUE
    /\ content = <<>>
    /\ lastSend = "none"
    /\ moodBoardItems = <<>>
    /\ isMoodBoardOpen = FALSE
    /\ now = 0
    /\ restarted = FALSE

NextTwo ==
    \/ \E files \in FileLists : processFiles(files)
    \/ \E batch \in pendingUploads : UploadCommit(batch)
    \/ onStart
    \/ \E style \in DESIGN_STYLES : handleSelectStyle(style)
    \/ handleGenerateClick
    \/ \E r \in DOMAIN runs : GenResolve(r)
    \/ \E r \in DOMAIN runs : GenReject(r)
    \/ \E index \in 0..(MaxUploads - 1) : setSelectedResultIndex(index)
    \/ \E mode \in {"design", "general"} : setChatMode(mode)
    \/ \E input \in Inputs : handleSubmit(input)
    \/ ChatResolve

SpecTwo == InitTwo /\ [][NextTwo]_vars

\* Parsing: the chat panel is rendered over a transcript of up to
\* MaxMessages messages, a user message first, each with any of these texts
\* (what a user types and what the service returns is free text), and again
\* after each message that is sent and each answer
ParseTexts ==
    { ShoppingReply, ChatReply, AckText, "Find a similar lamp",
      "Try:\n- **[A](u)** - d\n- **[B](v)** - e\nEnjoy",
      "- **[A](u) - d",
      "See - **[A](u)** - d - **[B](v)** - e",
      "- **[A]b](u)(v)** - " }

Transcripts ==
    UNION {{messages \in [1..n -> [role : {"user", "model"}, text : ParseTexts]] :
               \A j \in 1..n : messages[j].role = IF j % 2 = 1 THEN "user" ELSE "model"} :
           n \in 0..MaxMessages}

InitParse ==
    /\ originalImages = <<[file |-> 1, type |-> "image/png"]>>
    /\ generatedImages = Put(EmptyMap, 0, generateImageWithStyle(At(originalImages, 0)))
    /\ selectedResultIndex = 0
    /\ appState = "ready"
    /\ generationProgress = NoProgress
    /\ selectedStyle \in DESIGN_STYLES
    /\ error = NoError
    /\ chatMessages \in Transcripts
    /\ isChatLoading = FALSE
    /\ chatMode = "design"
    /\ showProcess = FALSE
    /\ pendingUploads = {}
    /\ runs = [r \in 1..MaxRuns |-> NoRun]
    /\ lastRun = NoRun
    /\ chatCall = NoCall
    /\ nextFile = 2
    /\ selectedColorPalette = NoPalette
    /\ selectedAtmosphere = NoAtmosphere
    /\ selectedQuality = DefaultQuality
    /\ prefsSavedFeedback = FALSE
    /\ storage = NoRecord
    /\ mounted = TRUE
    /\ content = <<>>
    /\ lastSend = "none"
    /\ moodBoardItems = <<>>
    /\ isMoodBoardOpen = FALSE
    /\ now = 0
    /\ restarted = FALSE

NextParse ==
    \/ renderChat
    \/ \E input \in Inputs : handleSubmit(input)
    \/ ChatResolve
    \/ ChatReject

SpecParse == InitParse /\ [][NextParse]_vars

\* Preferences: what a first startup may find under PREFERENCES_KEY (nothing,
\* a truncated text, the text null, objects with and without each property
\* and with a null property, a text with a trailing comma), then selecting, saving, clearing and
\* loading the page again
RawRecords ==
    { NoRecord,
      <<LBrace>>,
      <<JsonNull>>,
      <<LBrace, RBrace>>,
      <<LBrace, JsonString("quality"), Colon, JsonString("high"), RBrace>>,
      <<LBrace, JsonString("style"), Colon, JsonString("Scandinavian"), Comma,
        JsonString("atmosphere"), Colon, JsonNull, RBrace>>,
      <<LBrace, JsonString("style"), Colon, JsonString("Scandinavian"), Comma,
        JsonString("quality"), Colon, JsonNull, RBrace>>,
      <<LBrace, JsonString("quality"), Colon, JsonString("ultra"), RBrace>>,
      <<LBrace, JsonString("colorPalette"), Colon, JsonString("Neutral"), Comma,
        RBrace>> }

InitPrefs ==
    /\ originalImages = <<>>
    /\ generatedImages = EmptyMap
    /\ selectedResultIndex = Null
    /\ appState = "initial"
    /\ generationProgress = NoProgress
    /\ selectedStyle = NoStyle
    /\ error = NoError
    /\ chatMessages = <<>>
    /\ isChatLoading = FALSE
    /\ chatMode = "design"
    /\ showProcess = TRUE
    /\ pendingUploads = {}
    /\ runs = [r \in 1..MaxRuns |-> NoRun]
    /\ lastRun = NoRun
    /\ chatCall = NoCall
    /\ nextFile = 1
    /\ selectedColorPalette = NoPalette
    /\ selectedAtmosphere = NoAtmosphere
    /\ selectedQuality = DefaultQuality
    /\ prefsSavedFeedback = FALSE
    /\ storage \in RawRecords
    /\ mounted = FALSE
    /\ content = <<>>
    /\ lastSend = "none"
    /\ moodBoardItems = <<>>
    /\ isMoodBoardOpen = FALSE
    /\ now = 0
    /\ restarted = FALSE

NextPrefs ==
    \/ loadPreferences
    \/ mounted /\ \E files \in FileLists : processFiles(files)
    \/ mounted /\ \E batch \in pendingUploads : UploadCommit(batch)
    \/ mounted /\ onStart
    \/ mounted /\ \E style \in DESIGN_STYLES : handleSelectStyle(style)
    \/ mounted /\ \E palette \in COLOR_PALETTES : handleSelectColorPalette(palette)
    \/ mounted /\ \E atmosphere \in ATMOSPHERES : handleSelectAtmosphere(atmosphere)
    \/ mounted /\ \E quality \in IMAGE_QUALITIES : handleSelectQuality(quality)
    \/ mounted /\ handleSavePreferences
    \/ mounted /\ prefsSavedFeedbackTimeout
    \/ mounted /\ handleClearPreferences
    \/ reload

SpecPrefs == InitPrefs /\ [][NextPrefs]_vars

\* A startup on any of the RawRecords followed by a session with one upload:
\* choosing style and tier, clearing the preferences, a run, the gallery and
\* the chat on its result
InitTier ==
    /\ originalImages = <<>>
    /\ generatedImages = EmptyMap
    /\ selectedResultIndex = Null
    /\ appState = "initial"
    /\ generationProgress = NoProgress
    /\ selectedStyle = NoStyle
    /\ error = NoError
    /\ chatMessages = <<>>
    /\ isChatLoading = FALSE
    /\ chatMode = "design"
    /\ showProcess = TRUE
    /\ pendingUploads = {}
    /\ runs = [r \in 1..MaxRuns |-> NoRun]
    /\ lastRun = NoRun
    /\ chatCall = NoCall
    /\ nextFile = MaxUploads
    /\ selectedColorPalette = NoPalette
    /\ selectedAtmosphere = NoAtmosphere
    /\ selectedQuality = DefaultQuality
    /\ prefsSavedFeedback = FALSE
    /\ storage \in RawRecords
    /\ mounted = FALSE
    /\ content = <<>>
    /\ lastSend = "none"
    /\ moodBoardItems = <<>>
    /\ isMoodBoardOpen = FALSE
    /\ now = 0
    /\ restarted = FALSE

NextTier ==
    \/ loadPreferences
    \/ mounted /\ \E files \in FileLists : processFiles(files)
    \/ mounted /\ \E batch \in pendingUploads : UploadCommit(batch)
    \/ mounted /\ onStart
    \/ mounted /\ \E style \in DESIGN_STYLES : handleSelectStyle(style)
    \/ mounted /\ \E quality \in IMAGE_QUALITIES : handleSelectQuality(quality)
    \/ mounted /\ handleClearPreferences
    \/ mounted /\ handleGenerateClick
    \/ mounted /\ \E r \in DOMAIN runs : GenResolve(r)
    \/ mounted /\ \E index \in 0..(MaxUploads - 1) : setSelectedResultIndex(index)
    \/ mounted /\ \E input \in Inputs : handleSubmit(input)
    \/ mounted /\ ChatResolve

SpecTier == InitTier /\ [][NextTier]_vars

(* ------------------------------------------------------------------ claims *)
\* the slots of the runs in progress
ActiveSlots == {r \in DOMAIN runs : runs[r].pc = "await"}

\* the runs in progress
ActiveRuns == {runs[r] : r \in ActiveSlots}

\* the runs in progress and the run that has just ended
KnownRuns == ActiveRuns \cup (IF lastRun.pc = "none" THEN {} ELSE {lastRun})

\* the last call a run issued
LastCall(run) == run.calls[Len(run.calls)]

C1_CallsInOrder(run) ==
    /\ Len(run.calls) \in 1..Len(run.imgs)
    /\ run.calls[1].fn = "generateImageWithStyle"
    /\ run.calls[1].index = 0
    /\ run.calls[1].source = At(run.imgs, 0)
    /\ \A j \in 2..Len(run.calls) :
          /\ run.calls[j].fn = "applyStyleFromReference"
          /\ run.calls[j].index = j - 1
          /\ run.calls[j].source = At(run.imgs, j - 1)
          /\ run.calls[j].after = j - 1
    /\ run.pc = "ready" => Len(run.calls) = Len(run.imgs)

C1_Calls == \A run \in KnownRuns : Len(run.imgs) > 1 => C1_CallsInOrder(run)

C1_CommitBeforeNextCall ==
    \A r \in DOMAIN runs :
        (/\ runs[r].pc = "await" /\ runs'[r].pc = "await"
         /\ Len(runs'[r].calls) = Len(runs[r].calls) + 1)
        => /\ runs[r].i \in DOMAIN generatedImages'
           /\ generatedImages'[runs[r].i] = CallResult(LastCall(runs[r]))

\* C1: a run over N > 1 images issues one generateImageWithStyle call for
\* image 0, then applyStyleFromReference calls for images 1, 2, ... in
\* ascending order, N calls in all when no call fails; when the call of the
\* next step is issued, the result of the previous step is in generatedImages.
C1_Sequential == [][C1_Calls' /\ C1_CommitBeforeNextCall]_vars

C1_Witness ==
    /\ lastRun.pc = "ready"
    /\ Len(lastRun.imgs) = 3
    /\ Len(lastRun.calls) = 3
    /\ lastRun.calls[3].index = 2

\* C2: a run over exactly one image issues one generateImageWithStyle call
\* and no applyStyleFromReference call; when it succeeds, generatedImages
\* holds exactly the entry 0, the result of that call, and the run state is
\* ready.
C2_SingleImage ==
    \A run \in KnownRuns :
        Len(run.imgs) = 1 =>
            /\ Len(run.calls) = 1
            /\ run.calls[1].fn = "generateImageWithStyle"
            /\ run.calls[1].source = At(run.imgs, 0)
            /\ run.pc = "ready" =>
                  /\ generatedImages =
                        Put(EmptyMap, 0, generateImageWithStyle(At(run.imgs, 0)))
                  /\ appState = "ready"

C2_Witness ==
    /\ lastRun.pc = "ready"
    /\ Len(lastRun.imgs) = 1
    /\ DOMAIN generatedImages = {0}

\* C3: every applyStyleFromReference call of a run gets as its reference the
\* image this run's generateImageWithStyle call on image 0 returned, the same
\* for all of them, and the first call gets no reference image.
C3_SameReference ==
    \A run \in KnownRuns :
        /\ run.calls[1].reference = NoImage
        /\ \A j \in 2..Len(run.calls) :
              /\ run.calls[j].reference = CallResult(run.calls[1])
              /\ run.calls[j].reference.via = "style"
              /\ run.calls[j].reference.from = At(run.imgs, 0)

C3_Witness ==
    /\ lastRun.pc = "ready"
    /\ Len(lastRun.calls) = 3
    /\ lastRun.calls[3].reference = lastRun.calls[2].reference
    /\ lastRun.calls[3].reference.via = "style"

\* the results a run alone with generatedImages has committed before step i
CommittedBy(run) ==
    [j \in 0..(run.i - 1) |-> CallResult(run.calls[j + 1])]

C4_Failed ==
    lastRun.pc = "failed" =>
        /\ error = GenerateError
        /\ appState = "initial"
        /\ generationProgress = NoProgress
        /\ Len(lastRun.calls) = lastRun.i + 1
        /\ lastRun.alone => generatedImages = CommittedBy(lastRun)

C4_NoRetry ==
    lastRun'.pc = "failed" =>
        /\ generatedImages' = generatedImages
        /\ Cardinality(ActiveSlots') = Cardinality(ActiveSlots) - 1
        /\ \A r \in DOMAIN runs : runs'[r] = runs[r] \/ runs'[r] = NoRun

\* C4: when the call of step k of a run is rejected, the run ends without
\* another call (k calls issued, no retry), the batch-failure message is the
\* error, the run state is 'initial', the progress record is cleared, and the
\* failure leaves generatedImages as it was: for a run during which no other
\* handler wrote generatedImages, exactly the results of steps 1..k-1 at
\* indices 0..k-2 and nothing at the indices from k-1 on.
C4_FailureAborts == [][C4_Failed' /\ C4_NoRetry]_vars

C4_Witness ==
    /\ lastRun.pc = "failed"
    /\ lastRun.alone
    /\ Len(lastRun.imgs) = 3
    /\ Len(lastRun.calls) = 3
    /\ DOMAIN generatedImages = {0, 1}
    /\ appState = "initial"
    /\ error = GenerateError

\* C5: after a run failed at a step, the gallery shows the before/after
\* pair of every index committed by the earlier steps of that run.
C5_PartialResultsShown ==
    (lastRun.pc = "failed" /\ lastRun.alone) =>
        \A j \in 0..(lastRun.i - 1) : j \in GalleryPairs

\* arr without the element at (0-based) index k
Without(arr, k) == SubSeq(arr, 1, k) \o SubSeq(arr, k + 2, Len(arr))

C6_Removed(k) ==
    /\ originalImages' = Without(originalImages, k)
    /\ DOMAIN generatedImages' =
          {j \in DOMAIN generatedImages : j < k}
          \cup {j - 1 : j \in {q \in DOMAIN generatedImages : q > k}}
    /\ \A j \in DOMAIN generatedImages :
          /\ j < k => generatedImages'[j] = generatedImages[j]
          /\ j > k => generatedImages'[j - 1] = generatedImages[j]

\* C6: handleRemoveImage(k) removes the upload at k, drops the generated
\* entry at k, moves every generated entry at j > k to j - 1 with its payload,
\* and leaves the entries below k alone, for every map, sparse ones included.
C6_ExactReindex ==
    [][\E k \in 0..(Len(originalImages) - 1) : C6_Removed(k)]_vars

C6_Witness ==
    /\ Len(originalImages) = MaxUploads - 1
    /\ At(originalImages, 1).file = 3
    /\ DOMAIN generatedImages = {1}
    /\ generatedImages[1].from.file = 3

\* C7: every generated image stands at the index of an existing upload and
\* was made from that upload.
C7_Aligned ==
    \A index \in DOMAIN generatedImages :
        /\ index < Len(originalImages)
        /\ generatedImages[index].from = At(originalImages, index)

C8_Committed(batch) ==
    /\ originalImages' = originalImages \o batch.new
    /\ generatedImages' = EmptyMap
    /\ chatMessages' = <<>>
    /\ selectedResultIndex' = Null
    /\ appState' = "initial"
    /\ error' = NoError
    /\ showProcess' = TRUE

\* C8: when a batch commits, the uploads are those of that moment followed
\* by the new payloads in input order, and the generation-dependent state is
\* reset.
C8_AppendsToCurrent ==
    [][\A batch \in pendingUploads :
          (batch \notin pendingUploads' /\ error' # UploadError)
          => C8_Committed(batch)]_vars

C9_DecodeFailed ==
    (pendingUploads' # pendingUploads /\ pendingUploads' \subseteq pendingUploads
     /\ error' = UploadError)
    => UNCHANGED <<originalImages, generatedImages, selectedResultIndex, appState,
                   generationProgress, selectedStyle, chatMessages,
                   isChatLoading, chatMode, showProcess, runs, chatCall>>

C9_OnlyImagesPicked ==
    /\ \A batch \in pendingUploads' \ pendingUploads :
          /\ UNCHANGED appVars
          /\ Len(batch.new) >= 1
          /\ \A j \in DOMAIN batch.new : batch.new[j].type = "image/png"
    /\ \A j \in DOMAIN originalImages' : originalImages'[j].type = "image/png"

\* C9: a batch with a failed decode commits nothing: the step only sets the
\* ingestion error and leaves uploads, generated images, transcript,
\* selection and run state as they were; files that are no images never
\* become an upload or a pending decode, and picking files changes no
\* application state.
C9_NoPartialCommit == [][C9_DecodeFailed /\ C9_OnlyImagesPicked]_vars

C9_Witness ==
    /\ error = UploadError
    /\ pendingUploads = {}
    /\ Len(originalImages) = 2
    /\ DOMAIN generatedImages = {0, 1}
    /\ appState = "ready"

\* C10: the transcript alternates user, model, user, model ..., starting
\* with a user message, with at most one unanswered user message at its end
\* while a call is outstanding.
C10_Alternates ==
    /\ \A j \in DOMAIN chatMessages :
          chatMessages[j].role = IF j % 2 = 1 THEN "user" ELSE "model"
    /\ Len(chatMessages) % 2 = 1 => isChatLoading

\* the last message of a transcript
LastMessage(messages) == messages[Len(messages)]

\* a step in which handleSendMessage issues its call
SendStep == chatCall = NoCall /\ chatCall' # NoCall

\* a step in which the call of handleSendMessage settles
SettleStep == chatCall # NoCall /\ chatCall' = NoCall

\* a step in which the call of handleSendMessage resolves
ResolveStep ==
    /\ SettleStep
    /\ Len(chatMessages') > 0
    /\ LastMessage(chatMessages').text # SorryText

\* the inputs of ChatInputs that contain one of the six keywords in any case
WithKeyword == {"Find a similar lamp", "Add two ITEMS"}

\* the transcript gained exactly this model message
ModelMessageAppended(text) ==
    chatMessages' = Append(chatMessages, [role |-> "model", text |-> text])

\* C11: a design-mode message without a keyword, sent while the selected
\* result has a generated image, issues one refineImageWithText call on
\* that image and changes no image, upload or selection; when the call
\* resolves, the step writes the refined image at the index that was
\* selected when the message was sent and at no other index, leaves the
\* uploads and the selection as they are, and appends the fixed
\* acknowledgement; if selection and image are still as they were when the
\* message was sent, the index written is the selected result, and its
\* image is replaced.
C11_RefineFrame ==
    [][ /\ ( /\ SendStep
             /\ chatMode = "design"
             /\ Get(generatedImages, selectedResultIndex) # NoImage
             /\ chatCall'.text \notin WithKeyword )
           => /\ chatCall'.fn = "refineImageWithText"
              /\ chatCall'.base = Get(generatedImages, selectedResultIndex)
              /\ chatCall'.sel = selectedResultIndex
              /\ UNCHANGED <<generatedImages, originalImages, selectedResultIndex>>
        /\ (ResolveStep /\ chatCall.fn = "refineImageWithText")
           => /\ DOMAIN generatedImages' = DOMAIN generatedImages \cup {chatCall.sel}
              /\ generatedImages'[chatCall.sel] =
                    [from |-> chatCall.base.from, via |-> "refine"]
              /\ \A k \in DOMAIN generatedImages \ {chatCall.sel} :
                    generatedImages'[k] = generatedImages[k]
              /\ UNCHANGED <<originalImages, selectedResultIndex>>
              /\ ModelMessageAppended(AckText)
              /\ ( /\ selectedResultIndex = chatCall.sel
                   /\ Get(generatedImages, chatCall.sel) = chatCall.base )
                 => /\ chatCall.sel \in DOMAIN generatedImages
                    /\ generatedImages'[selectedResultIndex'].from =
                          generatedImages[selectedResultIndex].from ]_vars

\* the second of two results is selected and was refined; the first is as
\* the run left it
C11_Witness ==
    /\ Len(originalImages) = 2
    /\ selectedResultIndex = 1
    /\ DOMAIN generatedImages = {0, 1}
    /\ generatedImages[1] = [from |-> At(originalImages, 1), via |-> "refine"]
    /\ generatedImages[0] = generateImageWithStyle(At(originalImages, 0))
    /\ Len(chatMessages) = 2
    /\ LastMessage(chatMessages) = [role |-> "model", text |-> AckText]
    /\ chatCall = NoCall

\* C12: a design-mode message sent while the selected result has a
\* generated image is passed to getShoppingSuggestions, together with that
\* image, when its text contains a keyword in any case, and no message
\* without a keyword is ever passed to getShoppingSuggestions, in any mode;
\* sending changes no image; when a getShoppingSuggestions call resolves, no
\* image changes and the returned text is appended as the model message as
\* it was returned.
C12_ShoppingRouting ==
    [][ /\ ( /\ SendStep
             /\ chatMode = "design"
             /\ Get(generatedImages, selectedResultIndex) # NoImage
             /\ chatCall'.text \in WithKeyword )
           => /\ chatCall'.fn = "getShoppingSuggestions"
              /\ chatCall'.base = Get(generatedImages, selectedResultIndex)
              /\ UNCHANGED generatedImages
        /\ (SendStep /\ chatCall'.text \notin WithKeyword)
           => chatCall'.fn # "getShoppingSuggestions"
        /\ (ResolveStep /\ chatCall.fn = "getShoppingSuggestions")
           => /\ UNCHANGED <<generatedImages, originalImages, selectedResultIndex>>
              /\ ModelMessageAppended(ShoppingReply) ]_vars

\* a message with the keyword in capitals inside a word was answered with
\* the shopping text, and every image is still the one the run made
C12_Witness ==
    /\ Len(chatMessages) = 2
    /\ chatMessages[1] = [role |-> "user", text |-> "Add two ITEMS"]
    /\ chatMessages[2] = [role |-> "model", text |-> ShoppingReply]
    /\ chatMode = "design"
    /\ DOMAIN generatedImages = {0, 1}
    /\ \A k \in DOMAIN generatedImages : generatedImages[k].via # "refine"

\* C13: a message sent in general mode is passed to getChatResponse with
\* the text only, whatever the text and the selected image are, and no
\* image changes, neither then nor when the call resolves; a message sent
\* in design mode is not passed to getChatResponse.
C13_ModeRouting ==
    [][ /\ (SendStep /\ chatMode = "general")
           => /\ chatCall'.fn = "getChatResponse"
              /\ chatCall'.base = NoImage
              /\ chatCall'.text = LastMessage(chatMessages').text
              /\ UNCHANGED generatedImages
        /\ (SendStep /\ chatMode = "design")
           => chatCall'.fn # "getChatResponse"
        /\ (SettleStep /\ chatCall.fn = "getChatResponse")
           => UNCHANGED generatedImages ]_vars

\* a step in which the call of handleSendMessage is rejected
RejectStep ==
    /\ SettleStep
    /\ Len(chatMessages') > 0
    /\ LastMessage(chatMessages').text = SorryText

NoOpStep == lastSend # "noop" /\ lastSend' = "noop"

\* C15: while no result index is selected no message is sent: no step
\* issues a service call or appends a user message, and a call of
\* handleSendMessage changes nothing: transcript, outstanding call, loading
\* flag, error, images and every other part of the application state stay.
C15_NoOpWithoutSelection ==
    [][ /\ selectedResultIndex = Null =>
              /\ ~SendStep
              /\ \A input \in ChatInputs :
                    chatMessages' # Append(chatMessages, [role |-> "user", text |-> input])
        /\ NoOpStep =>
              /\ selectedResultIndex = Null
              /\ UNCHANGED <<appVars, chatCall, pendingUploads, runs, prefVars>> ]_vars

\* handleSendMessage was called with nothing selected while results and an
\* earlier exchange are there
C15_Witness ==
    /\ lastSend = "noop"
    /\ selectedResultIndex = Null
    /\ chatCall = NoCall
    /\ ~isChatLoading
    /\ Len(chatMessages) = 2
    /\ DOMAIN generatedImages # {}

\* a run starts: the run state is generating and the progress record is set
C16_RunStarts ==
    \A r \in DOMAIN runs :
        (runs[r].pc = "none" /\ runs'[r].pc = "await")
        => /\ appState' = "generating"
           /\ generationProgress' = [current |-> 1, total |-> Len(runs'[r].imgs)]

\* a run ends: the step is recorded, the progress record is cleared, and
\* the run state is ready exactly if the last call resolved (every call of
\* the run then resolved, one per image) and initial exactly if a call was
\* rejected
C16_RunEnds ==
    /\ \A r \in DOMAIN runs :
          (runs[r].pc = "await" /\ runs'[r].pc = "none") => lastRun' # NoRun
    /\ lastRun' # NoRun =>
          /\ generationProgress' = NoProgress
          /\ lastRun'.pc \in {"ready", "failed"}
          /\ appState' = "ready" <=> lastRun'.pc = "ready"
          /\ appState' = "initial" <=> lastRun'.pc = "failed"
          /\ lastRun'.pc = "ready" =>
                /\ Len(lastRun'.calls) = Len(lastRun'.imgs)
                /\ lastRun'.commits = Len(lastRun'.imgs)
          /\ lastRun'.pc = "failed" => lastRun'.commits < Len(lastRun'.calls)

\* the progress record is set only while a run is in progress
C16_ProgressOnlyInRun == generationProgress # NoProgress => ActiveSlots # {}

\* C16: a run that starts sets the run state to generating; the step that
\* ends it sets ready if and only if every call of the run resolved and
\* initial otherwise, and clears the progress record; the progress record is
\* set only while a run is in progress; and, every call being settled
\* eventually, every run ends and the generating state is always left again.
C16_RunState ==
    /\ [][C16_RunStarts /\ C16_RunEnds]_vars
    /\ []C16_ProgressOnlyInRun
    /\ \A r \in 1..MaxRuns : (runs[r].pc = "await") ~> (runs[r].pc = "none")
    /\ (appState = "generating") ~> (appState # "generating")

\* a run over two images has just ended with both calls resolved
C16_Witness ==
    /\ lastRun.pc = "ready"
    /\ Len(lastRun.imgs) = 2
    /\ lastRun.commits = 2
    /\ appState = "ready"
    /\ generationProgress = NoProgress
    /\ ActiveSlots = {}

RECURSIVE JoinLines(_)
\* the lines of a text part put together again
JoinLines(lines) ==
    IF Len(lines) = 1 THEN lines[1]
    ELSE lines[1] \o <<"\n">> \o JoinLines(Tail(lines))

\* the text a part stands for
SourceOf(part) ==
    IF part.kind = "text" THEN JoinLines(part.lines)
    ELSE OpenItem \o part.name \o NameToUrl \o part.url \o CloseItem
         \o part.description

RECURSIVE SourceOfAll(_)
\* the text a sequence of parts stands for, in order
SourceOfAll(parts) ==
    IF parts = <<>> THEN <<>>
    ELSE SourceOf(Head(parts)) \o SourceOfAll(Tail(parts))

\* no line terminator among chars[from..to]
OneLine(chars, from, to) ==
    \A j \in from..to : ~IsLineTerminator(chars[j])

\* the text holds "- **[", then "](" and then ")** - " on the same line
WellFormedIn(chars) ==
    \E open \in 1..Len(chars) :
        /\ StartsWith(chars, open, OpenItem)
        /\ \E mid \in (open + 5)..Len(chars) :
              /\ StartsWith(chars, mid, NameToUrl)
              /\ \E close \in (mid + 2)..Len(chars) :
                    /\ StartsWith(chars, close, CloseItem)
                    /\ OneLine(chars, open, close)

\* C19: for every rendered message, the parts put together in their order
\* give the text of the message again, character for character (so every
\* literal part is the text between two references as it was, and every
\* reference carries the name, url and description that stood in its
\* bullet); name, url and description are within one line; no literal part
\* of a model message still holds a well-formed bullet; a user message and a
\* model message without a well-formed bullet are one literal part; and the
\* example bullet and the bullet with brackets inside its name and url come
\* out with exactly their three fields.
C19_ParsedInOrder ==
    \A j \in DOMAIN content :
        LET message == chatMessages[j]
            parts == content[j]
        IN /\ SourceOfAll(parts) = Chars(message.text)
           /\ \A k \in DOMAIN parts :
                 IF parts[k].kind = "item"
                 THEN /\ message.role = "model"
                      /\ OneLine(parts[k].name, 1, Len(parts[k].name))
                      /\ OneLine(parts[k].url, 1, Len(parts[k].url))
                      /\ OneLine(parts[k].description, 1, Len(parts[k].description))
                 ELSE message.role = "model" => ~WellFormedIn(SourceOf(parts[k]))
           /\ (message.role = "user" \/ ~WellFormedIn(Chars(message.text)))
              => /\ Len(parts) = 1
                 /\ parts[1].kind = "text"
           /\ (message.role = "model" /\ WellFormedIn(Chars(message.text)))
              => \E k \in DOMAIN parts : parts[k].kind = "item"
           /\ (message.role = "model" /\ message.text = ShoppingReply)
              => parts = <<[kind |-> "item", lines |-> <<>>,
                            name |-> <<"S", "o", "f", "a">>,
                            url |-> <<"h", "t", "t", "p", ":", "/", "/", "x">>,
                            description |-> <<"G", "r", "e", "y", " ", "l", "i",
                                              "n", "e", "n", " ", "s", "o", "f",
                                              "a">>]>>
           /\ (message.role = "model" /\ message.text = "- **[A]b](u)(v)** - ")
              => parts = <<[kind |-> "item", lines |-> <<>>,
                            name |-> <<"A", "]", "b">>,
                            url |-> <<"u", ")", "(", "v">>,
                            description |-> <<>>]>>

\* the reply with two bullets between an opening and a closing line was
\* rendered: text, reference A, line break, reference B, text
C19_Witness ==
    /\ Len(content) = 2
    /\ chatMessages[2] = [role |-> "model",
                          text |-> "Try:\n- **[A](u)** - d\n- **[B](v)** - e\nEnjoy"]
    /\ Len(content[2]) = 5
    /\ content[2][1].kind = "text" /\ content[2][1].lines = <<<<"T", "r", "y", ":">>, <<>>>>
    /\ content[2][2].kind = "item" /\ content[2][2].name = <<"A">>
    /\ content[2][3].kind = "text"
    /\ content[2][4].kind = "item" /\ content[2][4].url = <<"v">>
    /\ content[2][5].kind = "text"
           /\ content[2][5].lines = <<<<>>, <<"E", "n", "j", "o", "y">>>>

\* a render step
RenderStep == content' # content

Selections ==
    [style |-> selectedStyle, colorPalette |-> selectedColorPalette,
     atmosphere |-> selectedAtmosphere, quality |-> selectedQuality]

DefaultSelections ==
    [style |-> NoStyle, colorPalette |-> NoPalette,
     atmosphere |-> NoAtmosphere, quality |-> DefaultQuality]

\* what a fresh startup makes of the stored record
StartupSelections ==
    [key \in DOMAIN DefaultSelections |-> Loaded(key, DefaultSelections[key])]

\* what a fresh startup makes of a given record: of a record that parses to
\* an object, every property with a non-empty value; else the defaults
StartupFrom(record) ==
    LET parsed == JSONparse(record)
    IN [key \in DOMAIN DefaultSelections |->
          IF /\ record # NoRecord
             /\ parsed.ok /\ ~parsed.isNull
             /\ Truthy(Prop(parsed.obj, key))
          THEN Prop(parsed.obj, key)
          ELSE DefaultSelections[key]]

\* a step of handleSavePreferences
C17_SaveStep == mounted /\ ~prefsSavedFeedback /\ prefsSavedFeedback'

\* a step of handleClearPreferences that removes a record
C17_ClearStep == mounted /\ mounted' /\ storage # NoRecord /\ storage' = NoRecord

\* a step of the mount effect
C17_LoadStep == ~mounted /\ mounted'

\* C17: saving keeps the four selections and stores a record from which a
\* fresh startup loads exactly these four values; the mount effect of a
\* startup yields what the stored record holds, starting from the defaults;
\* clearing removes the record and resets the four selections to their
\* defaults, so that a later startup finds the defaults.
C17_RoundTrip ==
    [][ /\ C17_SaveStep =>
              /\ Selections' = Selections
              /\ StartupFrom(storage') = Selections
        /\ C17_LoadStep =>
              /\ Selections = DefaultSelections
              /\ Selections' = StartupSelections
              /\ Selections' = StartupFrom(storage)
              /\ storage' = storage
        /\ C17_ClearStep =>
              /\ Selections' = DefaultSelections
              /\ StartupFrom(storage') = DefaultSelections ]_vars

\* a startup has loaded a record saved with a style, a palette and the high
\* tier: nothing is uploaded yet and the saved values are selected
C17_Witness ==
    /\ mounted
    /\ originalImages = <<>>
    /\ selectedStyle = "Scandinavian"
    /\ selectedColorPalette = "Neutral"
    /\ selectedAtmosphere = NoAtmosphere
    /\ selectedQuality = "high"
    /\ storage = JSONstringify(Selections)

\* the properties the mount effect reads
PrefKeys == {"style", "colorPalette", "atmosphere", "quality"}

\* C18 as stated: a record that cannot be parsed changes no selection and
\* shows no error; of a record that parses, a missing property leaves its
\* selection unchanged and every property that is present is applied.
C18_PresentApplied ==
    [][C17_LoadStep =>
         /\ error' = NoError
         /\ storage # NoRecord /\ ~JSONparse(storage).ok => Selections' = Selections
         /\ storage # NoRecord /\ JSONparse(storage).ok =>
               \A key \in PrefKeys :
                  IF key \in DOMAIN JSONparse(storage).obj
                  THEN Selections'[key] = JSONparse(storage).obj[key]
                  ELSE Selections'[key] = Selections[key] ]_vars

\* C18 (amended): a record that cannot be parsed, or that is the text null,
\* changes no selection and shows no error; of a record that parses, a
\* property that is missing, null or empty leaves its selection unchanged,
\* and every property with a non-empty value is applied.
C18_TruthyApplied ==
    [][C17_LoadStep =>
         /\ error' = NoError
         /\ storage' = storage
         /\ storage # NoRecord /\ ~JSONparse(storage).ok => Selections' = Selections
         /\ storage = <<JsonNull>> => Selections' = Selections
         /\ storage # NoRecord /\ JSONparse(storage).ok =>
               \A key \in PrefKeys :
                  IF /\ key \in DOMAIN JSONparse(storage).obj
                     /\ JSONparse(storage).obj[key] \notin {"null", ""}
                  THEN Selections'[key] = JSONparse(storage).obj[key]
                  ELSE Selections'[key] = Selections[key] ]_vars

\* a startup found a record with a style and a null quality: the style is
\* applied, the tier is still the default, no error is shown
C18_Witness ==
    /\ mounted
    /\ JSONparse(storage).ok
    /\ Prop(JSONparse(storage).obj, "quality") = "null"
    /\ selectedStyle = "Scandinavian"
    /\ selectedQuality = DefaultQuality
    /\ originalImages = <<>>
    /\ error = NoError

\* the board without the card at position j
WithoutCard(items, j) == SubSeq(items, 1, j - 1) \o SubSeq(items, j + 1, Len(items))

\* C21: the mood board changes only by a save, which appends one item at the
\* end and keeps the items before it, or by a removal on the open board,
\* which takes out one card, the one with the identifier, and keeps the
\* others in their order; a step that changes the board changes nothing of
\* uploads, results, run state or chat, so no other operation changes it.
C21_InsertionOrdered ==
    [][moodBoardItems' # moodBoardItems =>
          /\ \/ /\ Len(moodBoardItems') = Len(moodBoardItems) + 1
                /\ SubSeq(moodBoardItems', 1, Len(moodBoardItems)) = moodBoardItems
             \/ /\ isMoodBoardOpen
                /\ \E j \in DOMAIN moodBoardItems :
                      /\ moodBoardItems' = WithoutCard(moodBoardItems, j)
                      /\ \A k \in DOMAIN moodBoardItems' :
                            moodBoardItems'[k].id # moodBoardItems[j].id
          /\ UNCHANGED <<appVars, pendingUploads, runs, chatCall>> ]_vars

\* C22: the step in which a run starts leaves no result, no message, no
\* selection and no error behind, sets the chat mode to design, and has
\* issued the first call of the run and no other; and no chat call settles
\* after the results were reset (by a new run or an upload commit) since it
\* was issued, so no answer to a message of the previous results is appended
\* to the transcript.
C22_FreshTranscript ==
    [][ /\ \A r \in DOMAIN runs :
              (runs[r].pc = "none" /\ runs'[r].pc = "await")
              => /\ generatedImages' = EmptyMap
                 /\ chatMessages' = <<>>
                 /\ selectedResultIndex' = Null
                 /\ error' = NoError
                 /\ chatMode' = "design"
                 /\ Len(runs'[r].calls) = 1
        /\ SettleStep => ~restarted ]_vars

\* C23: in every reachable state at most one run is in progress: no second
\* run has started while a call of another run is outstanding.
C23_SingleRun == Cardinality(ActiveSlots) <= 1

\* a step of handleRemoveImage on upload k
RemoveStep(k) ==
    /\ k \in 0..(Len(originalImages) - 1)
    /\ originalImages' = Without(originalImages, k)

\* C24: in every reachable state a selected index has a generated image;
\* and the removal of upload k clears a selection of k, lowers a selection
\* above k by one and keeps a selection below k, so that a selection that is
\* left designates the generated image it designated before.
C24_SelectionDesignates ==
    /\ [](selectedResultIndex # Null => selectedResultIndex \in DOMAIN generatedImages)
    /\ [][\A k \in 0..(MaxUploads - 1) :
             RemoveStep(k) =>
                /\ selectedResultIndex = k => selectedResultIndex' = Null
                /\ selectedResultIndex > k => selectedResultIndex' = selectedResultIndex - 1
                /\ selectedResultIndex < k => selectedResultIndex' = selectedResultIndex
                /\ selectedResultIndex' # Null =>
                      Get(generatedImages', selectedResultIndex') =
                         Get(generatedImages, selectedResultIndex)]_vars

\* C25: in every reachable state the selected quality is one of the tiers of
\* IMAGE_QUALITIES, and so is the quality passed to the calls of a run in
\* progress and to an outstanding refinement call.
C25_TierValid ==
    /\ selectedQuality \in IMAGE_QUALITIES
    /\ \A r \in ActiveSlots : runs[r].quality \in IMAGE_QUALITIES
    /\ chatCall.fn = "refineImageWithText" => chatCall.quality \in IMAGE_QUALITIES
====
